---- MODULE Spec2Model ----
(***************************************************************************)
(* fastify-bullmq: the PDV report pipeline (pdv-report/worker.ts), the two *)
(* BullMQ workers of queue.ts (EmailQueue and PDVReportQueue) and the      *)
(* notification bus of index.ts (an EventEmitter relayed over SSE).        *)
(*                                                                         *)
(* Every await of a handler is a suspension point and is one action; the   *)
(* outcome of each external call (text generation, renderer, record store, *)
(* queue broker, mail transport) is chosen nondeterministically.           *)
(***************************************************************************)
EXTENDS Integers, Sequences, FiniteSets, TLC

VARIABLES
  now,            \* broker clock, in ms
  pdvJobs,        \* PDVReportQueue: job id = index
  emailJobs,      \* EmailQueue: job id = index
  report,         \* record store, table report, keyed by report id
  notifications,  \* record store, table organizationNotification
  emitted,        \* events handed to myEmitter.emit
  listeners,      \* myEmitter: registrations, in order of registration
  conns,          \* SSE connections of GET /notification/
  sent,           \* reply.sse.send calls made by the listeners
  lastEmit,       \* the latest emit: its event name and the listeners it invoked
  updates,        \* requests of POST /update-mailing-job, in order of arrival
  responses,      \* what the text-generation service answers to the prompts
  calc,           \* a call of generatePDVCalculation: its inputs and its locals
  helper,         \* a call of one of the text helpers of worker.ts
  wa,             \* WhatsAppService: its maps, its sockets and the session row
  ff              \* POST /fireflies-webhook: requests, runs and meeting rows

vars == <<now, pdvJobs, emailJobs, report, notifications, emitted,
          listeners, conns, sent, lastEmit, updates, responses, calc, helper,
          wa, ff>>

pipelineVars == <<now, pdvJobs, emailJobs, report, notifications>>
busVars == <<listeners, conns, sent>>
serviceVars == <<wa, ff>>

----------------------------------------------------------------------------
(* Bounds of the model *)

MaxPdvJobs == 1
MaxConns == 3
MaxNowTicks == 2
MaxMailingJobs == 1
MaxUpdates == 2
MaxPoolJobs == 3
MaxTextLen == 4
MaxYears == 3
MaxAnswerLen == 5
MaxBlocks == 3
MaxTenantConns == 1
MaxTenantRelays == 1
MaxHooks == 2
MaxCalls == 2
MaxDisconnects == 1
MaxSubscriptions == 2
MaxDeliveries == 1
MaxPendingSends == 2

\* every Delivery job is enqueued by a report job
MaxEmailJobs == MaxPdvJobs

(* Program constants *)

\* faulty variant: five seconds instead of five minutes
PdvDeliveryDelayMs_Seconds == 5 * 1000

PdvDeliveryDelayMs == 300000
TickMs == PdvDeliveryDelayMs \div 2
MailingDelayMs == 172800000
MailTickMs == MailingDelayMs \div 2
\* faulty variant: a third handler invocation is admitted
PdvConcurrency_Three == 2 + 1

PdvConcurrency == 2
EmailConcurrency == 1

ReportIds == {"r1", "r2"}
PlatformIds == {"p1"}
OrgIds == {"o1", "o2"}
UserEmails == {"", "user@one2b.io"}

\* null (JavaScript, SQL) and undefined: two values that no string equals
NoData == "(null)"
Absent == "(undefined)"
\* the string 'undefined'
Undefined == "undefined"
DbError == "record store write failed"
MailError == "postmark rejected the message"
QueueError == "queue add failed"
NotifyError == "notification create failed"

----------------------------------------------------------------------------
(* Pure helpers *)

\* `notificationEvent_${platformId}_${organisationId}`
TopicKey(platformId, organisationId) ==
  "notificationEvent_" \o platformId \o "_" \o organisationId

\* generateUnifiedADVPDFClient(orgName, parsedPreADV, parsedSupplementary, parsedADV):
\* the document holds the sections whose data is not null
RenderDocument(orgName, pre, sup, adv) ==
  "pdf(" \o orgName \o "," \o pre \o "," \o sup \o "," \o adv \o ")"

\* Buffer.from(arrayBuffer).toString('base64')
ToBase64(blob) == "base64:" \o blob

\* x || null for the string results of the stages
OrNull(s) == IF s = "" THEN NoData ELSE s

\* x ? JSON.parse(x) : null for the same strings: a parsed value is written
\* as its text, and the text "null" parses to null
ParsedOrNull(s) == IF s = "" \/ s = "null" THEN NoData ELSE s

\* faulty variant: the recipient alone decides, a missing document is not noticed
ShouldSchedule_IgnoresDocument(pdfReportData, userEmail) == userEmail # ""

\* if (pdfReportData && userEmail)
ShouldSchedule(pdfReportData, userEmail) ==
  pdfReportData # NoData /\ userEmail # ""

\* const reportTitle = `PDV Report - ${orgName}`
ReportTitle(orgName) == "PDV Report - " \o orgName

\* generateEmailHTML and generateEmailText: fixed texts around the two names
GenerateEmailHTML(reportTitle, orgName) ==
  "html(" \o reportTitle \o "," \o orgName \o ")"
GenerateEmailText(reportTitle, orgName) ==
  "text(" \o reportTitle \o "," \o orgName \o ")"

\* emailData returned by processPDVReportJob
EmailData(job, pdfReportData) ==
  [subdomain |-> job.subdomain,
   reportId |-> job.reportId,
   fromEmail |-> "james@12butterflies.life",
   toEmail |-> job.userEmail,
   subject |-> "Your " \o ReportTitle(job.orgName) \o " is Ready",
   htmlBody |-> GenerateEmailHTML(ReportTitle(job.orgName), job.orgName),
   textBody |-> GenerateEmailText(ReportTitle(job.orgName), job.orgName),
   attachments |-> << [Name |-> ReportTitle(job.orgName) \o ".pdf",
                       Content |-> pdfReportData,
                       ContentID |-> "adv-report-pdf",
                       ContentType |-> "application/pdf"] >>]

GeneratedTitle == "PDV Report Generated"
DeliveredTitle == "PDV Report Successfully Delivered"

\* result.MessageID of postmarkClient.sendEmail for email job e
MessageId(e) == "msg-" \o ToString(e)

\* what db.report.update with include: organisationWorkflow answers for
\* report r: the row with the organisation of its workflow, w, which is null
\* (organisationWorkflow: null) for a report without workflow
UpdatedRow(r, w) == [id |-> r, platformId |-> "p1", organisationWorkflow |-> w]

\* the organisation of the workflow of a report, as the store has it
WorkflowOrgs == OrgIds \cup {NoData}

\* no row read yet
NoRow == [id |-> NoData, platformId |-> NoData, organisationWorkflow |-> NoData]

\* const platformId = String(report.platformId): 'null' for null
ReportPlatform(row) == IF row.platformId = NoData THEN "null" ELSE row.platformId

\* const organizationId = report.organisationWorkflow?.organizationId ?? 'undefined'
ReportOrg(row) ==
  IF row.organisationWorkflow = NoData THEN Undefined ELSE row.organisationWorkflow

\* the payload of the report jobs that contend for the worker's two slots
PoolPayloads ==
  {[reportId |-> "r1", orgName |-> "Acme", userEmail |-> "",
    platformId |-> "p1", organizationId |-> "o1",
    workflowId |-> "wf1", reportType |-> "PDV", orgWorkflowId |-> "ow1",
    pdvAnswers |-> "answers", subdomain |-> "acme", enableADV |-> FALSE]}

\* payloads that ask for the valuation stage
ValuationPayloads ==
  {[reportId |-> "r1", orgName |-> "Acme", userEmail |-> u,
    platformId |-> "p1", organizationId |-> "o1",
    workflowId |-> "wf1", reportType |-> "PDV", orgWorkflowId |-> "ow1",
    pdvAnswers |-> "answers", subdomain |-> "acme", enableADV |-> TRUE] : u \in UserEmails}

\* String(x) and ${x}: the string itself, 'undefined' for undefined
StringOf(x) == IF x = Absent THEN Undefined ELSE x

\* bodies accepted by POST /add-pdv-report-job (schema pdvReportJob):
\* platformId is not required, organizationId and platformId are any
\* strings, whatever the report row holds
PdvPayloads ==
  {[reportId |-> r, orgName |-> "Acme", userEmail |-> u,
    platformId |-> p, organizationId |-> o,
    workflowId |-> "wf1", reportType |-> "PDV", orgWorkflowId |-> "ow1",
    pdvAnswers |-> "answers", subdomain |-> "acme", enableADV |-> a] :
      r \in ReportIds, u \in UserEmails, a \in BOOLEAN,
      p \in PlatformIds \cup {Absent}, o \in OrgIds}

\* the row of table report before any job has run
NewReport ==
  [preADVData |-> NoData, supplementADVData |-> NoData, ADVdata |-> NoData,
   lowerADVRange |-> NoData, upperADVRange |-> NoData, pdfReportData |-> NoData,
   deliveryStatus |-> "PENDING", emailDeliveryError |-> NoData,
   emailId |-> NoData, bullMQJobId |-> 0]

----------------------------------------------------------------------------
(* Responses of the text-generation service, and how worker.ts reads them.  *)
(* A response is a sequence of tokens: "F" a code fence, "{" and "}",       *)
(* "[" and "]" the brackets of an array, "m" a well-formed member list,     *)
(* "n" the literal null, "x" prose, " " white space.  There is no comma: an *)
(* array holds one value at most.                                           *)

TextTokens == {"F", "{", "}", "[", "]", "m", "n", "x", " "}

RECURSIVE TextsOfLen(_)
TextsOfLen(n) ==
  IF n = 0 THEN {<< >>}
  ELSE {Append(t, c) : t \in TextsOfLen(n - 1), c \in TextTokens}

Texts == UNION {TextsOfLen(n) : n \in 0..MaxTextLen}

\* the white space of a text: the space and the newline
WhiteSpace == {" ", "\n"}

\* String.prototype.trim
RECURSIVE Trim(_)
Trim(t) ==
  IF t = << >> THEN t
  ELSE IF Head(t) \in WhiteSpace THEN Trim(Tail(t))
  ELSE IF t[Len(t)] \in WhiteSpace THEN Trim(SubSeq(t, 1, Len(t) - 1))
  ELSE t

Positions(t, c) == {i \in DOMAIN t : t[i] = c}
Least(S) == CHOOSE i \in S : \A k \in S : i <= k
Greatest(S) == CHOOSE i \in S : \A k \in S : i >= k

\* faulty variant: the object is looked for before the fenced block
ExtractJSON_BracesFirst(text) ==
  LET fences == Positions(text, "F")
      open == Least(fences)
      close == Least(fences \ {open})
      block == IF Cardinality(fences) >= 2
               THEN Trim(SubSeq(text, open + 1, close - 1)) ELSE << >>
      lefts == Positions(text, "{")
      rights == Positions(text, "}")
  IN IF lefts # {} /\ \E r \in rights : r > Least(lefts)
     THEN SubSeq(text, Least(lefts), Greatest(rights))
     ELSE IF block # << >> THEN block
     ELSE text

\* extractJSON(text): the trimmed content of the first fenced block if it is
\* not empty, else the span from the first "{" to the last "}", else the text
ExtractJSON(text) ==
  LET fences == Positions(text, "F")
      open == Least(fences)
      close == Least(fences \ {open})
      block == IF Cardinality(fences) >= 2
               THEN Trim(SubSeq(text, open + 1, close - 1)) ELSE << >>
      lefts == Positions(text, "{")
      rights == Positions(text, "}")
  IN IF block # << >> THEN block
     ELSE IF lefts # {} /\ \E r \in rights : r > Least(lefts)
          THEN SubSeq(text, Least(lefts), Greatest(rights))
     ELSE text

\* the tokens u, white space left out, are a JSON value: null, an object,
\* or an array that is empty or holds a JSON value
RECURSIVE IsJSONValue(_)
IsJSONValue(u) ==
  \/ u \in {<<"n">>, <<"{", "}">>, <<"{", "m", "}">>, <<"[", "]">>}
  \/ /\ Len(u) > 2 /\ u[1] = "[" /\ u[Len(u)] = "]"
     /\ IsJSONValue(SubSeq(u, 2, Len(u) - 1))

\* JSON.parse(text): white space between the tokens does not count
ParseJSON(text) ==
  LET u == SelectSeq(text, LAMBDA c : c # " ")
  IN IF u = <<"{", "}">> THEN "emptyObject"
     ELSE IF u = <<"{", "m", "}">> THEN "object"
     ELSE IF u = <<"n">> THEN "null"
     ELSE IF IsJSONValue(u) THEN "array"
     ELSE "SyntaxError"

\* the value a parsed summary response stands for; has: its own properties
ParsedValue(kind) ==
  IF kind = "object"
  THEN [kind |-> "object",
        has |-> {"summary", "competitiveAdvantages", "dataProfileTable"},
        summary |-> "text", competitiveAdvantages |-> <<"advantage">>,
        dataProfileTable |-> <<"row">>]
  ELSE [kind |-> IF kind = "emptyObject" THEN "object" ELSE kind,
        has |-> {}, summary |-> "", competitiveAdvantages |-> << >>,
        dataProfileTable |-> << >>]

\* { summary: '', competitiveAdvantages: [], dataProfileTable: [] }
FallbackSummary ==
  [kind |-> "object",
   has |-> {"summary", "competitiveAdvantages", "dataProfileTable"},
   summary |-> "", competitiveAdvantages |-> << >>, dataProfileTable |-> << >>]

\* faulty variant: no catch around JSON.parse
SummaryJson_Unguarded(summaryRaw) == ParsedValue(ParseJSON(ExtractJSON(summaryRaw)))

\* try { summaryJson = JSON.parse(extractJSON(summaryRaw)) } catch { fallback }
SummaryJson(summaryRaw) ==
  IF ParseJSON(ExtractJSON(summaryRaw)) = "SyntaxError" THEN FallbackSummary
  ELSE ParsedValue(ParseJSON(ExtractJSON(summaryRaw)))

\* generatePrePDVData once its nine prompts are answered: reading
\* summaryJson.extractedMetrics throws a TypeError when summaryJson is null,
\* and gives undefined on an object or an array without that property
GeneratePrePDVData(summaryRaw) ==
  LET summaryJson == SummaryJson(summaryRaw)
  IN IF summaryJson.kind \in {"object", "array"}
     THEN [threw |-> FALSE, summary |-> summaryJson]
     ELSE [threw |-> TRUE, summary |-> summaryJson]

\* extractJSON returns to its caller
ReturnJSON ==
  /\ helper.fn = "extractJSON"
  /\ helper.pc = "called"
  /\ helper' = [helper EXCEPT !.pc = "returned", !.result = ExtractJSON(helper.arg)]
  /\ UNCHANGED <<serviceVars, calc, responses, updates, pipelineVars, emitted, busVars, lastEmit>>

\* extractJSON is called on what it returned, and returns
ReturnJSONAgain ==
  /\ helper.fn = "extractJSON"
  /\ helper.pc = "returned"
  /\ helper' = [helper EXCEPT !.pc = "returnedAgain", !.again = ExtractJSON(helper.result)]
  /\ UNCHANGED <<serviceVars, calc, responses, updates, pipelineVars, emitted, busVars, lastEmit>>

\* no helper has been called
NoHelper == [fn |-> "none", pc |-> "idle", arg |-> << >>, result |-> << >>]

----------------------------------------------------------------------------
(* generatePDVCalculation: the percentages it computes with.  A number that *)
(* may be absent (undefined or null) is a record: has, and the value v.     *)

None == [has |-> FALSE, v |-> 0]
Num(v) == [has |-> TRUE, v |-> v]

DefaultPercent == 50

\* what the extraction response may give for a percentage
SubmittedPercents == {None} \cup {Num(v) : v \in (0 - 1)..101}

\* what the pre-analysis may have extracted for the same percentage
MetricPercents == {None, Num(0), Num(30), Num(100)}

\* faulty variant: 0 and 100 pass as realistic
IsUnrealisticPercent_OutOfRange(value) == ~value.has \/ value.v < 0 \/ value.v > 100

\* isUnrealisticPercent(value)
IsUnrealisticPercent(value) == ~value.has \/ value.v <= 0 \/ value.v >= 100

\* isUnrealisticPercent(extracted) ? metric ?? 50 : extracted
SanitizePercent(extracted, metric) ==
  IF IsUnrealisticPercent(extracted)
  THEN (IF metric.has THEN metric.v ELSE DefaultPercent)
  ELSE extracted.v

\* a JavaScript number that need not be whole: the fraction n/d in lowest terms
RECURSIVE Gcd(_, _)
Gcd(a, b) == IF b = 0 THEN a ELSE Gcd(b, a % b)

Abs(x) == IF x < 0 THEN 0 - x ELSE x

Rat(n, d) == [n |-> n \div Gcd(Abs(n), d), d |-> d \div Gcd(Abs(n), d)]
Whole(k) == Rat(k, 1)

----------------------------------------------------------------------------
(* Numbers of the valuation: IEEE 754 binary64, for values that are not     *)
(* negative.  A natural number of any size is the sequence of its digits to *)
(* the base 2^15, the least significant first, without leading zeros; a     *)
(* double is m * 2^e with a mantissa m of exactly 53 bits, or zero.         *)

Base == 2^15

RECURSIVE BigTrim(_)
BigTrim(a) ==
  IF a # << >> /\ a[Len(a)] = 0 THEN BigTrim(SubSeq(a, 1, Len(a) - 1)) ELSE a

BigFromInt(n) ==
  BigTrim(<<n % Base, (n \div Base) % Base, n \div (Base * Base)>>)

RECURSIVE BigToInt(_)
BigToInt(a) == IF a = << >> THEN 0 ELSE Head(a) + Base * BigToInt(Tail(a))

\* a * k + carry for a digit k
RECURSIVE BigMulSmall(_, _, _)
BigMulSmall(a, k, carry) ==
  IF a = << >> THEN (IF carry = 0 THEN << >> ELSE <<carry>>)
  ELSE LET v == Head(a) * k + carry
       IN <<v % Base>> \o BigMulSmall(Tail(a), k, v \div Base)

RECURSIVE BigAdd(_, _, _)
BigAdd(a, b, carry) ==
  IF a = << >> /\ b = << >> THEN (IF carry = 0 THEN << >> ELSE <<carry>>)
  ELSE LET x == IF a = << >> THEN 0 ELSE Head(a)
           y == IF b = << >> THEN 0 ELSE Head(b)
           v == x + y + carry
       IN <<v % Base>> \o BigAdd(IF a = << >> THEN a ELSE Tail(a),
                                 IF b = << >> THEN b ELSE Tail(b),
                                 v \div Base)

\* a - b - borrow, for a >= b
RECURSIVE BigSubRaw(_, _, _)
BigSubRaw(a, b, borrow) ==
  IF a = << >> THEN << >>
  ELSE LET y == IF b = << >> THEN 0 ELSE Head(b)
           v == Head(a) - y - borrow
       IN <<(v + Base) % Base>>
            \o BigSubRaw(Tail(a), IF b = << >> THEN b ELSE Tail(b),
                         IF v < 0 THEN 1 ELSE 0)

BigSub(a, b) == BigTrim(BigSubRaw(a, b, 0))

RECURSIVE BigMul(_, _)
BigMul(a, b) ==
  IF a = << >> \/ b = << >> THEN << >>
  ELSE BigTrim(BigAdd(BigMulSmall(a, Head(b), 0), <<0>> \o BigMul(a, Tail(b)), 0))

\* quotient and remainder of a by n, for 0 < n <= 2^15
RECURSIVE BigDivRemRaw(_, _)
BigDivRemRaw(a, n) ==
  IF a = << >> THEN [q |-> << >>, r |-> 0]
  ELSE LET hi == BigDivRemRaw(Tail(a), n)
           v == hi.r * Base + Head(a)
       IN [q |-> <<v \div n>> \o hi.q, r |-> v % n]

BigDivRem(a, n) ==
  [q |-> BigTrim(BigDivRemRaw(a, n).q), r |-> BigDivRemRaw(a, n).r]

RECURSIVE IntBits(_)
IntBits(n) == IF n = 0 THEN 0 ELSE 1 + IntBits(n \div 2)

\* the number of bits of a
BitLen(a) == IF a = << >> THEN 0 ELSE 15 * (Len(a) - 1) + IntBits(a[Len(a)])

\* a * 2^k
BigShl(a, k) ==
  IF a = << >> THEN a
  ELSE [i \in 1..(k \div 15) |-> 0] \o BigMulSmall(a, 2^(k % 15), 0)

\* a \div 2^k, and whether bits were lost
BigShr(a, k) ==
  LET limbs == IF k \div 15 < Len(a) THEN k \div 15 ELSE Len(a)
      low == SubSeq(a, 1, limbs)
      d == BigDivRem(SubSeq(a, limbs + 1, Len(a)), 2^(k % 15))
  IN [q |-> d.q, nz |-> d.r # 0 \/ \E i \in DOMAIN low : low[i] # 0]

DZero == [m |-> << >>, e |-> 0]

\* the double nearest to M * 2^e, or to a value just above it when sticky:
\* round to nearest, ties to even
DRound(M, e, sticky) ==
  LET len == BitLen(M) IN
  IF M = << >> THEN DZero
  ELSE IF len <= 53 THEN [m |-> BigShl(M, 53 - len), e |-> e - (53 - len)]
  ELSE LET k == len - 53
           s == BigShr(M, k - 1)
           half == BigDivRem(s.q, 2)
           up == half.r = 1 /\ (s.nz \/ sticky \/ half.q[1] % 2 = 1)
           r == IF up THEN BigAdd(half.q, <<1>>, 0) ELSE half.q
       IN IF BitLen(r) = 54 THEN [m |-> BigDivRem(r, 2).q, e |-> e + k + 1]
          ELSE [m |-> r, e |-> e + k]

\* the double of an integer n >= 0
DFromInt(n) == DRound(BigFromInt(n), 0, FALSE)

\* x * y
DMul(x, y) == DRound(BigMul(x.m, y.m), x.e + y.e, FALSE)

\* x / n for an integer 0 < n <= 2^15
DDivBy(x, n) ==
  IF x.m = << >> THEN DZero
  ELSE LET d == BigDivRem(BigShl(x.m, 20), n) IN DRound(d.q, x.e - 20, d.r # 0)

\* x - y for x >= y
DSub(x, y) ==
  IF y.m = << >> THEN x
  ELSE LET e == IF x.e < y.e THEN x.e ELSE y.e
       IN DRound(BigSub(BigShl(x.m, x.e - e), BigShl(y.m, y.e - e)), e, FALSE)

\* Math.round(x): the nearest integer, a half goes up
MathRound(x) ==
  IF x.m = << >> THEN 0
  ELSE IF x.e >= 0 THEN BigToInt(BigShl(x.m, x.e))
  ELSE (BigToInt(BigShr(x.m, (0 - x.e) - 1).q) + 1) \div 2

\* array.reduce((sum, val) => sum + val, 0)
RECURSIVE SumOf(_)
SumOf(values) == IF values = << >> THEN 0 ELSE Head(values) + SumOf(Tail(values))

\* metric ?? fallback
OrDefault(metric, fallback) == IF metric.has THEN metric.v ELSE fallback

DefaultScarcityPercent == 50
DefaultOwnershipPercent == 80
DefaultUniquenessPercent == 50

\* const dataDecayPercent = 12.5; const lowerBoundDiscountPercent = 30
DataDecayPercent == DDivBy(DFromInt(25), 2)
LowerBoundDiscountPercent == 30

\* no call of generatePDVCalculation is in progress
NoCalculation ==
  [pc |-> "idle",
   extractedData |-> [dataReliancePercent |-> None, dataAttributablePercent |-> None,
                      yearlyValuations |-> << >>],
   preADVMetrics |-> [dataReliancePercent |-> None, dataAttributePercent |-> None,
                      dataScarcityPercent |-> None, dataOwnershipPercent |-> None,
                      dataUniquenessPercent |-> None],
   dataReliancePercent |-> 0, dataAttributablePercent |-> 0,
   dataScarcityPercent |-> 0, dataOwnershipPercent |-> 0, dataUniquenessPercent |-> 0,
   totalValuation |-> 0, dataRelianceValuation |-> DZero, afterDecay |-> DZero,
   dataQualityScore |-> DZero, upperADV |-> DZero, lowerADV |-> DZero,
   roundedUpperADV |-> 0, roundedLowerADV |-> 0]

\* the call has parsed the extraction response and the pre-analysis metrics
CalculationInputs ==
  {[NoCalculation EXCEPT
      !.pc = "extracted",
      !.extractedData.dataReliancePercent = r,
      !.extractedData.dataAttributablePercent = a,
      !.preADVMetrics.dataReliancePercent = mr,
      !.preADVMetrics.dataAttributePercent = ma] :
     r \in SubmittedPercents, a \in SubmittedPercents,
     mr \in MetricPercents, ma \in MetricPercents}

\* const dataReliancePercent = ...; const dataAttributablePercent = ...
SanitizePercents ==
  /\ calc.pc = "extracted"
  /\ calc' = [calc EXCEPT
       !.pc = "sanitized",
       !.dataReliancePercent =
          SanitizePercent(calc.extractedData.dataReliancePercent,
                          calc.preADVMetrics.dataReliancePercent),
       !.dataAttributablePercent =
          SanitizePercent(calc.extractedData.dataAttributablePercent,
                          calc.preADVMetrics.dataAttributePercent)]
  /\ UNCHANGED <<serviceVars, helper, responses, updates, pipelineVars, emitted, busVars, lastEmit>>

\* faulty variant: the quality score is used as a multiplier, not as a percentage
UpperADV_NotPerCent(afterDecay, dataQualityScore) ==
  DMul(afterDecay, dataQualityScore)

\* const dataQualityMultiplier = dataQualityScore / 100;
\* const upperADV = afterDecay * dataQualityMultiplier
UpperADV(afterDecay, dataQualityScore) ==
  DMul(afterDecay, DDivBy(dataQualityScore, 100))

\* the scarcity, ownership and uniqueness defaults, the total and Steps 1 to 4
\* of generatePDVCalculation, and the two Math.round
ComputeValuation ==
  /\ calc.pc = "sanitized"
  /\ LET scarcity == OrDefault(calc.preADVMetrics.dataScarcityPercent, DefaultScarcityPercent)
         ownership == OrDefault(calc.preADVMetrics.dataOwnershipPercent, DefaultOwnershipPercent)
         uniqueness == OrDefault(calc.preADVMetrics.dataUniquenessPercent, DefaultUniquenessPercent)
         totalValuation == SumOf(calc.extractedData.yearlyValuations)
         dataRelianceValuation ==
           DMul(DFromInt(totalValuation),
                DDivBy(DFromInt(calc.dataReliancePercent), 100))
         dataDecayMultiplier == DSub(DFromInt(1), DDivBy(DataDecayPercent, 100))
         afterDecay == DMul(dataRelianceValuation, dataDecayMultiplier)
         dataQualityScore == DDivBy(DFromInt(scarcity + ownership + uniqueness), 3)
         upperADV == UpperADV(afterDecay, dataQualityScore)
         lowerDiscountMultiplier ==
           DSub(DFromInt(1), DDivBy(DFromInt(LowerBoundDiscountPercent), 100))
         lowerADV == DMul(upperADV, lowerDiscountMultiplier)
     IN calc' = [calc EXCEPT
          !.pc = "returned",
          !.dataScarcityPercent = scarcity,
          !.dataOwnershipPercent = ownership,
          !.dataUniquenessPercent = uniqueness,
          !.totalValuation = totalValuation,
          !.dataRelianceValuation = dataRelianceValuation,
          !.afterDecay = afterDecay,
          !.dataQualityScore = dataQualityScore,
          !.upperADV = upperADV,
          !.lowerADV = lowerADV,
          !.roundedUpperADV = MathRound(upperADV),
          !.roundedLowerADV = MathRound(lowerADV)]
  /\ UNCHANGED <<serviceVars, helper, responses, updates, pipelineVars, emitted, busVars, lastEmit>>

----------------------------------------------------------------------------
(* extractPercentageFromText.  An answer is a sequence of characters: the   *)
(* digits "0", "1", "5", the point ".", the sign "%", "p" for the word      *)
(* percent in any case, " " white space and "x" any other character.        *)

AnswerChars == {"0", "1", "5", ".", "%", "p", " ", "x"}
Digits == {"0", "1", "5"}

RECURSIVE AnswersOfLen(_)
AnswersOfLen(n) ==
  IF n = 0 THEN {<< >>}
  ELSE {Append(t, c) : t \in AnswersOfLen(n - 1), c \in AnswerChars}

Answers == UNION {AnswersOfLen(n) : n \in 0..MaxAnswerLen}

DigitOf(c) == IF c = "0" THEN 0 ELSE IF c = "1" THEN 1 ELSE 5

RECURSIVE Pow10(_)
Pow10(k) == IF k = 0 THEN 1 ELSE 10 * Pow10(k - 1)

\* the number written by the digits t[i..k]
RECURSIVE DigitsValue(_, _, _)
DigitsValue(t, i, k) ==
  IF k < i THEN 0 ELSE 10 * DigitsValue(t, i, k - 1) + DigitOf(t[k])

\* the last position of the longest run of characters of S that starts at i
\* (i - 1 when t[i] is not in S): what a greedy \d+ or \s* consumes
RECURSIVE RunEnd(_, _, _)
RunEnd(t, i, S) ==
  IF i <= Len(t) /\ t[i] \in S THEN RunEnd(t, i + 1, S) ELSE i - 1

\* /(\d+(?:\.\d+)?)\s*(?:%|percent)/i tried at position i: whether it matches
\* there, and group 1 as t[i..last]
PercentMatchAt(t, i) ==
  LET whole == RunEnd(t, i, Digits)
      fraction == whole + 2 <= Len(t) /\ t[whole + 1] = "." /\ t[whole + 2] \in Digits
      last == IF fraction THEN RunEnd(t, whole + 2, Digits) ELSE whole
      sign == RunEnd(t, last + 1, {" "}) + 1
  IN [matches |-> whole >= i /\ sign <= Len(t) /\ t[sign] \in {"%", "p"},
      whole |-> whole, last |-> last]

\* parseFloat of group 1
ParseFloat(t, i, m) ==
  IF m.last = m.whole THEN Whole(DigitsValue(t, i, m.whole))
  ELSE Rat(DigitsValue(t, i, m.whole) * Pow10(m.last - m.whole - 1)
             + DigitsValue(t, m.whole + 2, m.last),
           Pow10(m.last - m.whole - 1))

\* faulty variant: only negative values are refused
InPercentRange_NoUpperLimit(value) == value.n >= 0

\* !isNaN(value) && value >= 0 && value <= 100
InPercentRange(value) == value.n >= 0 /\ value.n <= 100 * value.d

\* extractPercentageFromText(text): the number or null
NoPercentage == [has |-> FALSE, v |-> Whole(0)]

ExtractPercentageFromText(text) ==
  LET starts == {i \in DOMAIN text : PercentMatchAt(text, i).matches} IN
  IF starts = {} THEN NoPercentage
  ELSE LET value == ParseFloat(text, Least(starts), PercentMatchAt(text, Least(starts)))
       IN IF InPercentRange(value) THEN [has |-> TRUE, v |-> value] ELSE NoPercentage

\* the helper returns to generatePrePDVData
ReturnPercentage ==
  /\ helper.fn = "extractPercentageFromText"
  /\ helper.pc = "called"
  /\ helper' = [helper EXCEPT !.pc = "returned",
                               !.result = ExtractPercentageFromText(helper.arg)]
  /\ UNCHANGED <<serviceVars, calc, responses, updates, pipelineVars, emitted, busVars, lastEmit>>

----------------------------------------------------------------------------
(* callClaude.  The content of a message is a sequence of blocks; the text   *)
(* of a text block is a sequence of tokens, each the characters it shows:    *)
(*   "Alpha", "beta"    a word of prose                                      *)
(*   ".", " ", "\n"     a period, a space, a newline                         *)
(*   "Let me"           a phrase of the first pattern of the sanitizer       *)
(*   "I found that"     a phrase of its second pattern                       *)
(*   "could not find"   a phrase of its third pattern                        *)
(*   "Searching"        a phrase of its fourth pattern                       *)

ProseWords == {"Alpha", "beta"}
MetaPhrases == {"Let me", "I found that", "could not find", "Searching"}

\* the tokens that open and end with a letter: no word boundary (\b) lies
\* between two of them
Lettered == ProseWords \cup MetaPhrases

BlockTexts ==
  {<< >>, <<"Alpha">>, <<"beta">>, <<".">>, <<" ">>, <<"\n">>,
   <<"Let me">>, <<"I found that">>, <<"could not find">>, <<"Searching">>,
   <<"Let me", " ">>, <<"Alpha", ".", "beta">>, <<"\n", "\n">>}

\* the blocks of message.content: text blocks, and blocks of the web search tool
ContentBlocks ==
  {[type |-> "text", text |-> t] : t \in BlockTexts}
    \cup {[type |-> "server_tool_use", input |-> <<"Alpha">>],
          [type |-> "web_search_tool_result", content |-> <<"beta">>]}

RECURSIVE ContentsOfLen(_)
ContentsOfLen(n) ==
  IF n = 0 THEN {<< >>}
  ELSE {Append(c, b) : c \in ContentsOfLen(n - 1), b \in ContentBlocks}

Contents == UNION {ContentsOfLen(n) : n \in 0..MaxBlocks}

\* the options of a call that decide on sanitization
CallOptions == [skipSanitization : BOOLEAN, jsonMode : BOOLEAN]

\* faulty variant: message.content.find, the first text block alone
TextBlocks_FirstOnly(content) ==
  LET texts == SelectSeq(content, LAMBDA b : b.type = "text") IN
  IF texts = << >> THEN << >> ELSE <<Head(texts)>>

\* const textBlocks = message.content.filter((block) => block.type === 'text')
TextBlocks(content) == SelectSeq(content, LAMBDA b : b.type = "text")

\* Array.prototype.join('')
RECURSIVE Join(_)
Join(texts) == IF texts = << >> THEN << >> ELSE Head(texts) \o Join(Tail(texts))

\* textBlocks.map((block) => block.text).join('')
ResponseText(content) ==
  Join([k \in DOMAIN TextBlocks(content) |-> TextBlocks(content)[k].text])

\* the first period of t at or after position i, 0 when there is none:
\* where the lazy [^.]*?\. ends.  With sameLine, 0 as well when a newline
\* comes before the period: the "." of .*?\. matches no newline
RECURSIVE FirstPeriod(_, _, _)
FirstPeriod(t, i, sameLine) ==
  IF i > Len(t) THEN 0
  ELSE IF t[i] = "." THEN i
  ELSE IF sameLine /\ t[i] = "\n" THEN 0
  ELSE FirstPeriod(t, i + 1, sameLine)

\* A pattern of metaPatterns tried at position i of t: the last position of
\* its match, 0 when it does not match there.  A match runs from the phrase
\* over whatever follows, prose and newlines included, to the next period
\* and through the white space after it (\s*).
\* /^(I'll|Let me|...)\s+[^.]*?\.\s*/gi: "^" without the m flag, the
\* beginning of the text alone; white space after the phrase
Pattern1(t, i) ==
  LET p == FirstPeriod(t, i + 2, FALSE) IN
  IF /\ i = 1 /\ t[i] = "Let me"
     /\ i + 1 <= Len(t) /\ t[i + 1] \in WhiteSpace
     /\ p # 0
  THEN RunEnd(t, p + 1, WhiteSpace) ELSE 0

\* /\b(...|I found that|...)\b[^.]*?\.\s*/gi: anywhere, a word boundary on
\* either side of the phrase
Pattern2(t, i) ==
  LET p == FirstPeriod(t, i + 1, FALSE) IN
  IF /\ t[i] = "I found that"
     /\ (i = 1 \/ t[i - 1] \notin Lettered)
     /\ (i = Len(t) \/ t[i + 1] \notin Lettered)
     /\ p # 0
  THEN RunEnd(t, p + 1, WhiteSpace) ELSE 0

\* /\b(...|could not find|...)\b[^.]*?\.\s*/gi
Pattern3(t, i) ==
  LET p == FirstPeriod(t, i + 1, FALSE) IN
  IF /\ t[i] = "could not find"
     /\ (i = 1 \/ t[i - 1] \notin Lettered)
     /\ (i = Len(t) \/ t[i + 1] \notin Lettered)
     /\ p # 0
  THEN RunEnd(t, p + 1, WhiteSpace) ELSE 0

\* /^(Searching|...).*?\.\s*/gim: "^" with the m flag, the beginning of a
\* line; the period on that line
Pattern4(t, i) ==
  LET p == FirstPeriod(t, i + 1, TRUE) IN
  IF /\ t[i] = "Searching"
     /\ (i = 1 \/ t[i - 1] = "\n")
     /\ p # 0
  THEN RunEnd(t, p + 1, WhiteSpace) ELSE 0

\* metaPatterns[k - 1] tried at position i of t
MetaPattern(k, t, i) ==
  CASE k = 1 -> Pattern1(t, i)
    [] k = 2 -> Pattern2(t, i)
    [] k = 3 -> Pattern3(t, i)
    [] k = 4 -> Pattern4(t, i)

\* what a global replace by '' leaves of t from position i on: the matches
\* are found from left to right, each search beginning after the last match
RECURSIVE ReplaceFrom(_, _, _)
ReplaceFrom(t, k, i) ==
  IF i > Len(t) THEN << >>
  ELSE IF MetaPattern(k, t, i) # 0 THEN ReplaceFrom(t, k, MetaPattern(k, t, i) + 1)
  ELSE <<t[i]>> \o ReplaceFrom(t, k, i + 1)

\* cleaned.replace(pattern, '') for the k-th pattern of metaPatterns
Replace(t, k) == ReplaceFrom(t, k, 1)

\* for (const pattern of metaPatterns) cleaned = cleaned.replace(pattern, '')
RemoveMeta(t) == Replace(Replace(Replace(Replace(t, 1), 2), 3), 4)

\* cleaned.replace(/\n{3,}/g, '\n\n'): of a run of newlines two remain
RECURSIVE CollapseNewlines(_)
CollapseNewlines(t) ==
  IF Len(t) < 3 THEN t
  ELSE IF t[1] = "\n" /\ t[2] = "\n" /\ t[3] = "\n"
       THEN CollapseNewlines(Tail(t))
       ELSE <<Head(t)>> \o CollapseNewlines(Tail(t))

\* sanitizeResponse(text)
SanitizeResponse(text) == Trim(CollapseNewlines(RemoveMeta(text)))

\* callClaude once client.messages.create has resolved with content
CallClaude(content, options) ==
  [response |-> ResponseText(content),
   returned |-> IF ~options.skipSanitization /\ ~options.jsonMode
                THEN SanitizeResponse(ResponseText(content))
                ELSE ResponseText(content)]

\* await client.messages.create(...) resolves and callClaude returns
ReturnFromClaude(content) ==
  /\ helper.fn = "callClaude"
  /\ helper.pc = "awaiting"
  /\ helper' = [helper EXCEPT !.pc = "returned",
                               !.arg = [options |-> helper.arg.options, content |-> content],
                               !.result = CallClaude(content, helper.arg.options)]
  /\ UNCHANGED <<serviceVars, calc, responses, updates, pipelineVars, emitted, busVars, lastEmit>>

----------------------------------------------------------------------------
\* the yearly company valuations an extraction response may list
RECURSIVE ValuationsOfLen(_)
ValuationsOfLen(n) ==
  IF n = 0 THEN {<< >>}
  ELSE {Append(y, v) : y \in ValuationsOfLen(n - 1), v \in {100, 200, 300}}

YearlyValuations == UNION {ValuationsOfLen(n) : n \in 0..MaxYears}

\* what the pre-analysis may have extracted for scarcity, ownership, uniqueness
QualityPercents == {None, Num(60), Num(90)}

\* the call has parsed an extraction response that lists the yearly valuations
ArithmeticInputs ==
  {[NoCalculation EXCEPT
      !.pc = "extracted",
      !.extractedData.dataReliancePercent = r,
      !.extractedData.dataAttributablePercent = Num(40),
      !.extractedData.yearlyValuations = y,
      !.preADVMetrics.dataReliancePercent = mr,
      !.preADVMetrics.dataScarcityPercent = sc,
      !.preADVMetrics.dataOwnershipPercent = ow,
      !.preADVMetrics.dataUniquenessPercent = un] :
     r \in {Num(0), Num(50), Num(80)}, y \in YearlyValuations,
     mr \in {None, Num(30)},
     sc \in QualityPercents, ow \in QualityPercents, un \in QualityPercents}

----------------------------------------------------------------------------
(* WhatsAppService, one session and one group of it.  socks holds every      *)
(* socket makeWASocket has returned, in creation order, each with the        *)
(* handlers subscribed to its messages.upsert (subs, in subscription order)  *)
(* and the position of its setupPersistentListener; sockets and qrCodes are  *)
(* the two maps' entry for the session (0: no entry), qrCodes naming the     *)
(* socket whose QR it is.  calls holds the invocations of connect, timers    *)
(* the pending reconnect timeouts, disc the invocation of disconnect, runs   *)
(* the invocations of importGroup and syncAllImportedGroups, tasks those of  *)
(* the message handlers.  status is the session row, group the importStatus  *)
(* of the group row, messages the whatsAppMessage rows of the group.         *)
(* exited: the Node process has terminated on an unhandled rejection.        *)
(* origin, statusBy, quiet and cut (disconnect was called since) are         *)
(* history the code lacks.                                                   *)

NoSession ==
  [socks |-> << >>, sockets |-> 0, qrCodes |-> 0, syncTimers |-> FALSE,
   status |-> "DISCONNECTED", statusBy |-> "none", auth |-> FALSE,
   timers |-> 0, calls |-> << >>, disc |-> [pc |-> "idle", sock |-> 0],
   discs |-> 0, quiet |-> FALSE,
   group |-> "PENDING", runs |-> << >>, deliveries |-> 0, tasks |-> << >>,
   messages |-> << >>, exited |-> FALSE]

\* the Node process is running: no rejection has gone unhandled, neither in
\* the WhatsApp service, nor in a webhook run, nor in a listener of the bus
Running ==
  /\ ~wa.exited
  /\ ~ff.exited
  /\ \A c \in DOMAIN conns : ~conns[c].unhandled

\* a rejection nothing handles: the process terminates with the state w
Unhandled(w) == [w EXCEPT !.exited = TRUE]

Live(k) == wa.socks[k].state \in {"connecting", "open"}

\* getSessionStatus(sessionId)
getSessionStatus ==
  IF wa.sockets = 0 THEN "DISCONNECTED"
  ELSE IF wa.socks[wa.sockets].user THEN "CONNECTED"
  ELSE IF wa.qrCodes # 0 THEN "QR_PENDING"
  ELSE "DISCONNECTED"

\* connect: "If already connected, skip"
AlreadyConnected == wa.sockets # 0 /\ wa.socks[wa.sockets].user

\* connect(sessionId) up to its first await
connect(origin) ==
  [wa EXCEPT !.calls = Append(@, [pc |-> IF AlreadyConnected THEN "skipped"
                                         ELSE "update",
                                  origin |-> origin, auth |-> FALSE])]

\* POST /whatsapp/connect
ConnectRoute ==
  /\ Running
  /\ Len(wa.calls) < MaxCalls
  /\ wa' = [connect("explicit") EXCEPT !.quiet = FALSE]
  /\ UNCHANGED <<ff, helper, calc, responses, updates, pipelineVars, emitted,
                 busVars, lastEmit>>

\* the 3 s timeout set by a close event fires: void this.connect(sessionId)
ReconnectTimer ==
  /\ Running
  /\ Len(wa.calls) < MaxCalls
  /\ wa.timers > 0
  /\ wa' = [connect("timer") EXCEPT !.timers = @ - 1]
  /\ UNCHANGED <<ff, helper, calc, responses, updates, pipelineVars, emitted,
                 busVars, lastEmit>>

\* an await of connect rejects: the route catches it and replies 500; the
\* timer's call is made with void, nothing handles its rejection
Rejected(c) ==
  LET w == [wa EXCEPT !.calls[c].pc = "failed"] IN
  IF wa.calls[c].origin = "timer" THEN Unhandled(w) ELSE w

\* connect: the session row is set to QR_PENDING
UpdatePending(c, ok) ==
  /\ Running
  /\ c \in DOMAIN wa.calls
  /\ wa.calls[c].pc = "update"
  /\ wa' = IF ok
           THEN [wa EXCEPT !.calls[c].pc = "auth",
                           !.status = "QR_PENDING",
                           !.statusBy = wa.calls[c].origin]
           ELSE Rejected(c)
  /\ UNCHANGED <<ff, helper, calc, responses, updates, pipelineVars, emitted,
                 busVars, lastEmit>>

\* connect: { state, saveCreds } = await useMultiFileAuthState(authPath)
ReadAuth(c, ok) ==
  /\ Running
  /\ c \in DOMAIN wa.calls
  /\ wa.calls[c].pc = "auth"
  /\ wa' = IF ok
           THEN [wa EXCEPT !.calls[c].pc = "version",
                           !.calls[c].auth = wa.auth]
           ELSE Rejected(c)
  /\ UNCHANGED <<ff, helper, calc, responses, updates, pipelineVars, emitted,
                 busVars, lastEmit>>

\* connect: await fetchLatestBaileysVersion() returns; the socket is made
\* with the auth state read before, and stored
MakeSocket(c, ok) ==
  /\ Running
  /\ c \in DOMAIN wa.calls
  /\ wa.calls[c].pc = "version"
  /\ wa' = IF ok
           THEN [wa EXCEPT !.calls[c].pc = "done",
                           !.socks = Append(@, [state |-> "connecting",
                                                user |-> wa.calls[c].auth,
                                                origin |-> wa.calls[c].origin,
                                                qr |-> "none",
                                                pending |-> {},
                                                cut |-> FALSE,
                                                listener |-> "none",
                                                subs |-> << >>]),
                           !.sockets = Len(wa.socks) + 1]
           ELSE Rejected(c)
  /\ UNCHANGED <<ff, helper, calc, responses, updates, pipelineVars, emitted,
                 busVars, lastEmit>>

\* connection.update with a qr: the data URL is being generated
QrEvent(k) ==
  /\ Running
  /\ k \in DOMAIN wa.socks
  /\ wa.socks[k].state = "connecting"
  /\ ~wa.socks[k].user
  /\ wa.socks[k].qr = "none"
  /\ wa' = [wa EXCEPT !.socks[k].qr = "pending"]
  /\ UNCHANGED <<ff, helper, calc, responses, updates, pipelineVars, emitted,
                 busVars, lastEmit>>

\* QRCode.toDataURL returns and the QR is stored; an error is caught
QrStored(k, ok) ==
  /\ Running
  /\ k \in DOMAIN wa.socks
  /\ wa.socks[k].qr = "pending"
  /\ wa' = IF ok
           THEN [wa EXCEPT !.socks[k].qr = "none", !.qrCodes = k]
           ELSE [wa EXCEPT !.socks[k].qr = "none"]
  /\ UNCHANGED <<ff, helper, calc, responses, updates, pipelineVars, emitted,
                 busVars, lastEmit>>

\* connection.update with connection 'open', up to its await
OpenEvent(k) ==
  /\ Running
  /\ k \in DOMAIN wa.socks
  /\ wa.socks[k].state = "connecting"
  /\ wa' = [wa EXCEPT !.socks[k].state = "open",
                      !.socks[k].user = TRUE,
                      !.socks[k].pending = @ \cup {"CONNECTED"},
                      !.auth = TRUE,
                      !.qrCodes = 0]
  /\ UNCHANGED <<ff, helper, calc, responses, updates, pipelineVars, emitted,
                 busVars, lastEmit>>

\* the open handler's update returns: setupPersistentListener runs up to its
\* findMany and startPeriodicSync sets the interval.  The handler is an async
\* listener of the socket: nothing handles a rejection of its update
MarkConnected(k, ok) ==
  /\ Running
  /\ k \in DOMAIN wa.socks
  /\ "CONNECTED" \in wa.socks[k].pending
  /\ wa' = IF ok
           THEN [wa EXCEPT !.socks[k].pending = @ \ {"CONNECTED"},
                           !.socks[k].listener = "groups",
                           !.status = "CONNECTED",
                           !.statusBy = wa.socks[k].origin,
                           !.syncTimers = TRUE]
           ELSE Unhandled([wa EXCEPT !.socks[k].pending = @ \ {"CONNECTED"}])
  /\ UNCHANGED <<ff, helper, calc, responses, updates, pipelineVars, emitted,
                 busVars, lastEmit>>

\* a handler subscribed to messages.upsert: the persistent listener (run 0)
\* or the handler of the run of importGroup or syncGroup
Handler(handler, run) == [handler |-> handler, run |-> run]

\* setupPersistentListener: findMany of the groups with importStatus
\* COMPLETED returns; with one at least the listener is subscribed to the
\* socket.  The function is called with void
ListenerGroups(k, ok) ==
  /\ Running
  /\ k \in DOMAIN wa.socks
  /\ wa.socks[k].listener = "groups"
  /\ wa' = IF ~ok THEN Unhandled([wa EXCEPT !.socks[k].listener = "failed"])
           ELSE IF wa.group = "COMPLETED"
           THEN [wa EXCEPT !.socks[k].listener = "on",
                           !.socks[k].subs = Append(@, Handler("listener", 0))]
           ELSE [wa EXCEPT !.socks[k].listener = "skipped"]
  /\ UNCHANGED <<ff, helper, calc, responses, updates, pipelineVars, emitted,
                 busVars, lastEmit>>

\* what the close handler does before its await
Closed(w, k, loggedOut) ==
  [w EXCEPT !.socks[k].state = "closed",
            !.socks[k].pending = IF loggedOut THEN @ \cup {"DISCONNECTED"}
                                 ELSE @,
            !.sockets = 0,
            !.qrCodes = 0,
            !.timers = IF loggedOut THEN @ ELSE @ + 1]

\* connection.update with connection 'close'
CloseEvent(k, loggedOut) ==
  /\ Running
  /\ k \in DOMAIN wa.socks
  /\ Live(k)
  /\ wa' = Closed(wa, k, loggedOut)
  /\ UNCHANGED <<ff, helper, calc, responses, updates, pipelineVars, emitted,
                 busVars, lastEmit>>

\* the close handler's update returns after a logout; nothing handles its
\* rejection
MarkLoggedOut(k, ok) ==
  /\ Running
  /\ k \in DOMAIN wa.socks
  /\ "DISCONNECTED" \in wa.socks[k].pending
  /\ wa' = IF ok
           THEN [wa EXCEPT !.socks[k].pending = @ \ {"DISCONNECTED"},
                           !.status = "DISCONNECTED",
                           !.statusBy = "close",
                           !.auth = FALSE]
           ELSE Unhandled([wa EXCEPT !.socks[k].pending = @ \ {"DISCONNECTED"}])
  /\ UNCHANGED <<ff, helper, calc, responses, updates, pipelineVars, emitted,
                 busVars, lastEmit>>

\* disconnect(sessionId) up to its first await (POST /whatsapp/disconnect)
disconnect ==
  /\ Running
  /\ wa.discs < MaxDisconnects
  /\ wa.disc.pc \in {"idle", "done", "failed"}
  /\ wa' = [wa EXCEPT !.syncTimers = FALSE,
                      !.discs = @ + 1,
                      !.disc = [pc |-> IF wa.sockets # 0 THEN "logout"
                                       ELSE "update",
                                sock |-> wa.sockets],
                      !.socks = [k \in DOMAIN @ |-> [@[k] EXCEPT !.cut = TRUE]]]
  /\ UNCHANGED <<ff, helper, calc, responses, updates, pipelineVars, emitted,
                 busVars, lastEmit>>

\* sock.logout() returns: a live socket closes as logged out on the way
LogoutReturns(ok) ==
  /\ Running
  /\ wa.disc.pc = "logout"
  /\ wa' = IF ok
           THEN LET w == IF Live(wa.disc.sock)
                         THEN Closed(wa, wa.disc.sock, TRUE) ELSE wa
                IN [w EXCEPT !.disc.pc = "update",
                             !.sockets = 0,
                             !.qrCodes = 0]
           ELSE [wa EXCEPT !.disc.pc = "failed"]
  /\ UNCHANGED <<ff, helper, calc, responses, updates, pipelineVars, emitted,
                 busVars, lastEmit>>

\* disconnect: the session row is set to DISCONNECTED, auth files removed
DisconnectUpdate(ok) ==
  /\ Running
  /\ wa.disc.pc = "update"
  /\ wa' = IF ok
           THEN [wa EXCEPT !.disc.pc = "done",
                           !.status = "DISCONNECTED",
                           !.statusBy = "disconnect",
                           !.auth = FALSE,
                           !.quiet = TRUE]
           ELSE [wa EXCEPT !.disc.pc = "failed"]
  /\ UNCHANGED <<ff, helper, calc, responses, updates, pipelineVars, emitted,
                 busVars, lastEmit>>

WhatsAppNext ==
  \/ ConnectRoute
  \/ ReconnectTimer
  \/ \E c \in 1..MaxCalls, ok \in BOOLEAN : UpdatePending(c, ok)
  \/ \E c \in 1..MaxCalls, ok \in BOOLEAN : ReadAuth(c, ok)
  \/ \E c \in 1..MaxCalls, ok \in BOOLEAN : MakeSocket(c, ok)
  \/ \E k \in 1..MaxCalls : QrEvent(k)
  \/ \E k \in 1..MaxCalls, ok \in BOOLEAN : QrStored(k, ok)
  \/ \E k \in 1..MaxCalls : OpenEvent(k)
  \/ \E k \in 1..MaxCalls, ok \in BOOLEAN : MarkConnected(k, ok)
  \/ \E k \in 1..MaxCalls, ok \in BOOLEAN : ListenerGroups(k, ok)
  \/ \E k \in 1..MaxCalls, loggedOut \in BOOLEAN : CloseEvent(k, loggedOut)
  \/ \E k \in 1..MaxCalls, ok \in BOOLEAN : MarkLoggedOut(k, ok)
  \/ disconnect
  \/ \E ok \in BOOLEAN : LogoutReturns(ok)
  \/ \E ok \in BOOLEAN : DisconnectUpdate(ok)

----------------------------------------------------------------------------
(* Import and sync of the group, and the storage of its messages.           *)

MsgIds == {"w1", "w2"}

\* the session was connected with the group imported: the row says
\* CONNECTED and the persistent listener is subscribed to the socket
Listening ==
  [NoSession EXCEPT
     !.socks = <<[state |-> "open", user |-> TRUE, origin |-> "explicit",
                  qr |-> "none", pending |-> {}, cut |-> FALSE,
                  listener |-> "on", subs |-> <<Handler("listener", 0)>>]>>,
     !.sockets = 1, !.auth = TRUE, !.syncTimers = TRUE,
     !.status = "CONNECTED", !.statusBy = "explicit",
     !.calls = <<[pc |-> "done", origin |-> "explicit", auth |-> FALSE]>>,
     !.group = "COMPLETED"]

\* whatsAppMessage.findFirst({where: {groupId, whatsappMsgId}})
findFirst(whatsappMsgId) ==
  \E i \in DOMAIN wa.messages : wa.messages[i].whatsappMsgId = whatsappMsgId

\* whatsAppMessage.create({data}): the record store adds a row
create(rows, data) == Append(rows, data)

RAt(i, pc) == Running /\ i \in DOMAIN wa.runs /\ wa.runs[i].pc = pc

\* POST /whatsapp/import: void importGroup(...), up to its first await.
\* Without a socket importGroup throws 'Session ... not connected': the
\* route has replied 'Import started', nothing handles the rejection
ImportRoute ==
  /\ Running
  /\ Len(wa.runs) < MaxSubscriptions
  /\ wa' = IF wa.sockets = 0
           THEN Unhandled([wa EXCEPT !.runs = Append(@,
                  [kind |-> "import", pc |-> "thrown", sock |-> 0])])
           ELSE [wa EXCEPT !.runs = Append(@,
                  [kind |-> "import", pc |-> "status", sock |-> wa.sockets])]
  /\ UNCHANGED <<ff, helper, calc, responses, updates, pipelineVars, emitted,
                 busVars, lastEmit>>

\* importGroup: await update({ importStatus: 'IMPORTING' }), before the try
ImportStatus(i, ok) ==
  /\ RAt(i, "status")
  /\ wa' = IF ok
           THEN [wa EXCEPT !.runs[i].pc = "contacts", !.group = "IMPORTING"]
           ELSE Unhandled([wa EXCEPT !.runs[i].pc = "thrown"])
  /\ UNCHANGED <<ff, helper, calc, responses, updates, pipelineVars, emitted,
                 busVars, lastEmit>>

\* the run has the group's contacts (groupMetadata, whatsAppContact.upsert)
\* and subscribes its handler: sock.ev.on('messages.upsert', handler)
Subscribed(i) ==
  LET run == wa.runs[i] IN
  [wa EXCEPT !.runs[i].pc = "waiting",
             !.socks[run.sock].subs = Append(@, Handler(run.kind, i))]

\* importGroup subscribes its messageHandler; an error before goes to the catch
SubscribeImport(i, ok) ==
  /\ RAt(i, "contacts")
  /\ wa.runs[i].kind = "import"
  /\ wa' = IF ok THEN Subscribed(i)
           ELSE [wa EXCEPT !.runs[i].pc = "markFailed"]
  /\ UNCHANGED <<ff, helper, calc, responses, updates, pipelineVars, emitted,
                 busVars, lastEmit>>

\* the interval of startPeriodicSync fires: void syncAllImportedGroups(...),
\* which returns at once without an authenticated socket in the map
SyncTimer ==
  /\ Running
  /\ Len(wa.runs) < MaxSubscriptions
  /\ wa.syncTimers
  /\ AlreadyConnected
  /\ wa' = [wa EXCEPT !.runs = Append(@,
               [kind |-> "sync", pc |-> "groups", sock |-> 0])]
  /\ UNCHANGED <<ff, helper, calc, responses, updates, pipelineVars, emitted,
                 busVars, lastEmit>>

\* syncAllImportedGroups: findMany returns; for the imported group syncGroup
\* starts, and throws into the caller's catch without a socket in the map
SyncGroups(i, ok) ==
  /\ RAt(i, "groups")
  /\ wa' = IF ~ok THEN Unhandled([wa EXCEPT !.runs[i].pc = "thrown"])
           ELSE IF wa.group = "COMPLETED" /\ wa.sockets # 0
           THEN [wa EXCEPT !.runs[i].pc = "contacts",
                           !.runs[i].sock = wa.sockets]
           ELSE [wa EXCEPT !.runs[i].pc = "done"]
  /\ UNCHANGED <<ff, helper, calc, responses, updates, pipelineVars, emitted,
                 busVars, lastEmit>>

\* syncGroup subscribes its syncHandler; an error before is caught by
\* syncAllImportedGroups
SubscribeSync(i, ok) ==
  /\ RAt(i, "contacts")
  /\ wa.runs[i].kind = "sync"
  /\ wa' = IF ok THEN Subscribed(i)
           ELSE [wa EXCEPT !.runs[i].pc = "done"]
  /\ UNCHANGED <<ff, helper, calc, responses, updates, pipelineVars, emitted,
                 busVars, lastEmit>>

\* the 15 s or 10 s wait is over: sock.ev.off('messages.upsert', handler);
\* importGroup goes on to mark the group, syncGroup to set lastSyncedAt
Unsubscribe(i) ==
  /\ RAt(i, "waiting")
  /\ LET run == wa.runs[i] IN
     wa' = [wa EXCEPT
              !.runs[i].pc = IF run.kind = "import" THEN "complete" ELSE "done",
              !.socks[run.sock].subs =
                 SelectSeq(@, LAMBDA h : h # Handler(run.kind, i))]
  /\ UNCHANGED <<ff, helper, calc, responses, updates, pipelineVars, emitted,
                 busVars, lastEmit>>

\* importGroup: await update({ importStatus: 'COMPLETED' }), in the try
ImportCompleted(i, ok) ==
  /\ RAt(i, "complete")
  /\ wa' = IF ok
           THEN [wa EXCEPT !.runs[i].pc = "done", !.group = "COMPLETED"]
           ELSE [wa EXCEPT !.runs[i].pc = "markFailed"]
  /\ UNCHANGED <<ff, helper, calc, responses, updates, pipelineVars, emitted,
                 busVars, lastEmit>>

\* importGroup's catch: await update({ importStatus: 'FAILED' }); nothing
\* handles a rejection of this write
ImportFailed(i, ok) ==
  /\ RAt(i, "markFailed")
  /\ wa' = IF ok
           THEN [wa EXCEPT !.runs[i].pc = "failed", !.group = "FAILED"]
           ELSE Unhandled([wa EXCEPT !.runs[i].pc = "thrown"])
  /\ UNCHANGED <<ff, helper, calc, responses, updates, pipelineVars, emitted,
                 busVars, lastEmit>>

\* a handler's work on one message up to its first await
HandlerTask(handler, whatsappMsgId) ==
  [handler |-> handler.handler, run |-> handler.run,
   whatsappMsgId |-> whatsappMsgId,
   pc |-> IF handler.handler = "import" THEN "contact" ELSE "find"]

\* the order in which the socket calls its handlers: that of subscription
HandlerOrder(subs) == subs

\* messages.upsert of socket k with one message of the group: every
\* subscribed handler starts on it
MessageEvent(k, whatsappMsgId) ==
  /\ Running
  /\ wa.deliveries < MaxDeliveries
  /\ k \in DOMAIN wa.socks
  /\ wa.socks[k].state = "open"
  /\ wa.socks[k].subs # << >>
  /\ LET order == HandlerOrder(wa.socks[k].subs)
     IN wa' = [wa EXCEPT
                 !.deliveries = @ + 1,
                 !.tasks = @ \o [i \in 1..Len(order) |->
                                   HandlerTask(order[i], whatsappMsgId)]]
  /\ UNCHANGED <<ff, helper, calc, responses, updates, pipelineVars, emitted,
                 busVars, lastEmit>>

TAt(t, pc) == Running /\ t \in DOMAIN wa.tasks /\ wa.tasks[t].pc = pc

\* an await of a handler rejects: storeMessage is called in a try by the
\* listener and the sync handler; the import handler awaits in no try, and
\* nothing handles the rejection of an async listener of the socket
TaskRejected(t) ==
  LET w == [wa EXCEPT !.tasks[t].pc = "failed"] IN
  IF wa.tasks[t].handler = "import" THEN Unhandled(w) ELSE w

\* listener and sync handler: "Deduplicate", a lookup before the store and
\* outside the try
FindFirst(t, ok) ==
  /\ TAt(t, "find")
  /\ wa' = IF ~ok THEN Unhandled([wa EXCEPT !.tasks[t].pc = "failed"])
           ELSE IF findFirst(wa.tasks[t].whatsappMsgId)
           THEN [wa EXCEPT !.tasks[t].pc = "skipped"]
           ELSE [wa EXCEPT !.tasks[t].pc = "contact"]
  /\ UNCHANGED <<ff, helper, calc, responses, updates, pipelineVars, emitted,
                 busVars, lastEmit>>

\* whatsAppContact.upsert for the sender
UpsertContact(t, ok) ==
  /\ TAt(t, "contact")
  /\ wa' = IF ok THEN [wa EXCEPT !.tasks[t].pc = "create"]
           ELSE TaskRejected(t)
  /\ UNCHANGED <<ff, helper, calc, responses, updates, pipelineVars, emitted,
                 busVars, lastEmit>>

\* whatsAppMessage.create for the message
CreateMessage(t, ok) ==
  /\ TAt(t, "create")
  /\ wa' = IF ok
           THEN [wa EXCEPT
                   !.tasks[t].pc = "stored",
                   !.messages = create(@, [whatsappMsgId |->
                                              wa.tasks[t].whatsappMsgId,
                                            by |-> wa.tasks[t].handler])]
           ELSE TaskRejected(t)
  /\ UNCHANGED <<ff, helper, calc, responses, updates, pipelineVars, emitted,
                 busVars, lastEmit>>

MaxTasks == (MaxSubscriptions + 1) * MaxDeliveries

MessagesNext ==
  \/ ImportRoute
  \/ SyncTimer
  \/ \E i \in 1..MaxSubscriptions, ok \in BOOLEAN :
       \/ ImportStatus(i, ok)
       \/ SubscribeImport(i, ok)
       \/ SyncGroups(i, ok)
       \/ SubscribeSync(i, ok)
       \/ ImportCompleted(i, ok)
       \/ ImportFailed(i, ok)
  \/ \E i \in 1..MaxSubscriptions : Unsubscribe(i)
  \/ \E whatsappMsgId \in MsgIds : MessageEvent(1, whatsappMsgId)
  \/ \E t \in 1..MaxTasks, ok \in BOOLEAN : FindFirst(t, ok)
  \/ \E t \in 1..MaxTasks, ok \in BOOLEAN : UpsertContact(t, ok)
  \/ \E t \in 1..MaxTasks, ok \in BOOLEAN : CreateMessage(t, ok)

----------------------------------------------------------------------------
(* POST /fireflies-webhook and the background run it starts.  A request is  *)
(* hooks[h]; the run continues under the same index once the reply is sent. *)

MeetingIds == {"m1", "m2"}
EventTypes == {"Transcription completed", "Meeting started"}

\* the lead tables: emails of communityLead, communityCompanyLead.companyEmail
\* and communityProjectLead.companyEmail
CommunityLeadEmails == {"both@lead.io"}
CompanyLeadEmails == {"both@lead.io", "cp@lead.io"}
ProjectLeadEmails == {"cp@lead.io", "proj@lead.io"}

\* the organizer's email as the transcript service knows it
OrganizerEmails == {"both@lead.io", "cp@lead.io", "proj@lead.io", "nobody@mail.io"}

\* no request has arrived, the table meetingTranscript is empty, the Node
\* process is running
NoMeetings == [hooks |-> << >>, meetings |-> << >>, exited |-> FALSE]

\* data.data.transcript of the answer to GRAPHQL_QUERY: an object with the
\* fields the query names, the organizer under organizer_email
TranscriptAnswer(organizer_email) == [organizer_email |-> organizer_email]

\* object.name, undefined for a field the object has not
Field(object, name) == IF name \in DOMAIN object THEN object[name] ELSE Absent

\* faulty variant: every event type is processed
IsProcessed_AnyEvent(eventType) == TRUE

\* if (eventType !== 'Transcription completed') reply 'Event type not processed'
IsProcessed(eventType) == eventType = "Transcription completed"

\* matchMeetingToEntity(organizerEmail): the type of the first table that
\* knows the email, or "none" for null
MatchMeetingToEntity(organizerEmail) ==
  IF organizerEmail \in CommunityLeadEmails THEN "community"
  ELSE IF organizerEmail \in CompanyLeadEmails THEN "company"
  ELSE IF organizerEmail \in ProjectLeadEmails THEN "project"
  ELSE "none"

\* the rows of meetingTranscript with this firefliesMeetingId
MeetingRows(meetingId) ==
  {i \in DOMAIN ff.meetings : ff.meetings[i].firefliesMeetingId = meetingId}

HAt(h, pc) == Running /\ h \in DOMAIN ff.hooks /\ ff.hooks[h].pc = pc

\* the request arrives; the handler runs up to await findUnique(...)
ReceiveWebhook(meetingId, eventType) ==
  /\ Running
  /\ Len(ff.hooks) < MaxHooks
  /\ ff' = [ff EXCEPT !.hooks = Append(@,
        [meetingId |-> meetingId, eventType |-> eventType,
         pc |-> IF IsProcessed(eventType) THEN "find" ELSE "done",
         reply |-> IF IsProcessed(eventType) THEN "none" ELSE "Event type not processed",
         found |-> "unknown", record |-> 0, started |-> FALSE,
         organizer_email |-> "", organizerEmail |-> "", match |-> "none"])]
  /\ UNCHANGED <<wa, helper, calc, responses, updates, pipelineVars, emitted, busVars, lastEmit>>

\* existing = await findUnique({ where: { firefliesMeetingId } })
FindMeeting(h, ok) ==
  /\ HAt(h, "find")
  /\ LET hook == ff.hooks[h]
         existing == MeetingRows(hook.meetingId) # {} IN
     ff' = [ff EXCEPT !.hooks[h] =
        IF ~ok THEN [hook EXCEPT !.pc = "done", !.reply = "error"]
        ELSE IF existing
        THEN [hook EXCEPT !.pc = "done", !.found = "row",
                          !.reply = "Meeting already processed"]
        ELSE [hook EXCEPT !.pc = "create", !.found = "null"]]
  /\ UNCHANGED <<wa, helper, calc, responses, updates, pipelineVars, emitted, busVars, lastEmit>>

\* the row create(...) inserts
NewMeeting(meetingId) ==
  [firefliesMeetingId |-> meetingId, processingStatus |-> "RECEIVED",
   organizerEmail |-> "unknown@email.com", lead |-> "none"]

\* meetingRecord = await create({ processingStatus: RECEIVED }); then the
\* background run starts (it runs up to its first await) and the reply is sent.
\* firefliesMeetingId is a unique column (findUnique is accepted for no
\* other): a second row of the same meeting is rejected
CreateMeeting(h, ok) ==
  /\ HAt(h, "create")
  /\ LET hook == ff.hooks[h] IN
     IF ok /\ MeetingRows(hook.meetingId) = {}
     THEN ff' = [ff EXCEPT
            !.meetings = Append(@, NewMeeting(hook.meetingId)),
            !.hooks[h] = [hook EXCEPT !.pc = "markProcessing",
                                      !.record = Len(ff.meetings) + 1,
                                      !.started = TRUE,
                                      !.reply = "Webhook received"]]
     ELSE ff' = [ff EXCEPT
            !.hooks[h] = [hook EXCEPT !.pc = "done", !.reply = "error"]]
  /\ UNCHANGED <<wa, helper, calc, responses, updates, pipelineVars, emitted, busVars, lastEmit>>

\* await update({ processingStatus: PROCESSING }); a rejection goes to the catch
MarkProcessing(h, ok) ==
  /\ HAt(h, "markProcessing")
  /\ LET hook == ff.hooks[h] IN
     IF ok
     THEN ff' = [ff EXCEPT
            !.meetings[hook.record].processingStatus = "PROCESSING",
            !.hooks[h].pc = "fetch"]
     ELSE ff' = [ff EXCEPT !.hooks[h].pc = "markFailed"]
  /\ UNCHANGED <<wa, helper, calc, responses, updates, pipelineVars, emitted, busVars, lastEmit>>

\* the 30 s wait, then transcript = await fetchTranscriptFromFireflies(meetingId)
\* (the fetch and response.json(): awaits that touch no state of the server);
\* the run goes on to matchMeetingToEntity(transcript.organizerEmail), with a
\* field the answer does not carry
FetchTranscript(h, ok, organizer_email) ==
  /\ HAt(h, "fetch")
  /\ ff' = [ff EXCEPT !.hooks[h] =
        IF ok THEN [@ EXCEPT !.pc = "match",
                             !.organizer_email = organizer_email,
                             !.organizerEmail =
                                Field(TranscriptAnswer(organizer_email), "organizerEmail")]
        ELSE [@ EXCEPT !.pc = "markFailed"]]
  /\ UNCHANGED <<wa, helper, calc, responses, updates, pipelineVars, emitted, busVars, lastEmit>>

\* match = await matchMeetingToEntity(transcript.organizerEmail); the lookups
\* answer, or one of them throws (~ok)
MatchMeeting(h, ok) ==
  /\ HAt(h, "match")
  /\ LET hook == ff.hooks[h] IN
     ff' = [ff EXCEPT !.hooks[h] =
        IF ok THEN [hook EXCEPT !.pc = "update",
                                !.match = MatchMeetingToEntity(hook.organizerEmail)]
        ELSE [hook EXCEPT !.pc = "markFailed"]]
  /\ UNCHANGED <<wa, helper, calc, responses, updates, pipelineVars, emitted, busVars, lastEmit>>

\* await update({ ...transcript, processingStatus: match ? MATCHED : UNMATCHED });
\* a field given as undefined is left as it is in the row
UpdateMeeting(h, ok) ==
  /\ HAt(h, "update")
  /\ LET hook == ff.hooks[h] IN
     IF ok
     THEN ff' = [ff EXCEPT
            !.meetings[hook.record] =
               [@ EXCEPT !.organizerEmail =
                            IF hook.organizerEmail = Absent THEN @
                            ELSE hook.organizerEmail,
                         !.lead = hook.match,
                         !.processingStatus =
                            IF hook.match # "none" THEN "MATCHED" ELSE "UNMATCHED"],
            !.hooks[h].pc = "done"]
     ELSE ff' = [ff EXCEPT !.hooks[h].pc = "markFailed"]
  /\ UNCHANGED <<wa, helper, calc, responses, updates, pipelineVars, emitted, busVars, lastEmit>>

\* catch: await update({ processingStatus: FAILED, errorMessage }).  Nothing
\* catches a rejection of this write: it leaves the function called with
\* void, an unhandled rejection, and the Node process terminates
MarkMeetingFailed(h, ok) ==
  /\ HAt(h, "markFailed")
  /\ LET hook == ff.hooks[h] IN
     IF ok
     THEN ff' = [ff EXCEPT
            !.meetings[hook.record].processingStatus = "FAILED",
            !.hooks[h].pc = "done"]
     ELSE ff' = [ff EXCEPT !.hooks[h].pc = "done", !.exited = TRUE]
  /\ UNCHANGED <<wa, helper, calc, responses, updates, pipelineVars, emitted, busVars, lastEmit>>

----------------------------------------------------------------------------
(* Initial state: run() has created the emitter, both queues and both workers *)

Init ==
  /\ now = 0
  /\ pdvJobs = << >>
  /\ emailJobs = << >>
  /\ report = [r \in ReportIds |-> NewReport]
  /\ notifications = {}
  /\ emitted = {}
  /\ listeners = << >>
  /\ conns = << >>
  /\ sent = {}
  /\ lastEmit = [key |-> "", invoked |-> {}, registered |-> {}]
  /\ updates = << >>
  /\ responses = [summaryRaw |-> << >>, extractRaw |-> << >>, comparisonRaw |-> << >>]
  /\ calc = NoCalculation
  /\ wa = NoSession /\ ff = NoMeetings
  /\ helper = NoHelper

----------------------------------------------------------------------------
(* EventEmitter *)

\* the connections whose listener is registered under event name key
ListenersOf(key) ==
  {listeners[i].conn : i \in {k \in DOMAIN listeners : listeners[k].event = key}}

\* faulty variant: the listeners are queued for a later turn of the event loop
\* and emit returns before any of them has run
Emit_Deferred(key, ev) ==
  /\ emitted' = emitted \cup {[key |-> key, ev |-> ev]}
  /\ sent' = sent
  /\ conns' = conns
  /\ lastEmit' = [key |-> key, invoked |-> ListenersOf(key),
                  registered |-> {listeners[i].conn : i \in DOMAIN listeners}]

\* myEmitter.emit(key, ev): every listener registered under key runs up to its
\* await of reply.sse.send, before emit returns; the promise of each send is
\* still pending then
Emit(key, ev) ==
  /\ emitted' = emitted \cup {[key |-> key, ev |-> ev]}
  /\ sent' = sent \cup {[conn |-> c, key |-> key, title |-> ev.title,
                          open |-> conns[c].open] : c \in ListenersOf(key)}
  /\ conns' = [c \in DOMAIN conns |->
                 IF c \in ListenersOf(key)
                 THEN [conns[c] EXCEPT !.pending = @ + 1]
                 ELSE conns[c]]
  /\ lastEmit' = [key |-> key, invoked |-> ListenersOf(key),
                  registered |-> {listeners[i].conn : i \in DOMAIN listeners}]

----------------------------------------------------------------------------
(* PDVReportQueue: POST /add-pdv-report-job and the worker of               *)
(* setupPDVReportProcessor, which runs processPDVReportJob                  *)

NewPdvJob(d) ==
  [data |-> d, state |-> "waiting", pc |-> "idle",
   preADVReportData |-> "", supplementaryADVReportData |-> "",
   advReportData |-> "", lowerADVRange |-> "", upperADVRange |-> "",
   pdfReportData |-> NoData, renderArgs |-> << >>,
   success |-> "none", hasEmailData |-> FALSE, error |-> NoData,
   emailJobId |-> 0, failedReason |-> NoData, trace |-> << >>,
   succeeded |-> {}, attemptsStarted |-> 0,
   supSeed |-> "unseeded", advSeed |-> "unseeded"]

ActivePdv == {j \in DOMAIN pdvJobs : pdvJobs[j].state = "active"}

At(j, pc) == Running /\ j \in DOMAIN pdvJobs /\ pdvJobs[j].state = "active" /\ pdvJobs[j].pc = pc

\* pdvReportQueue.add('PDVReport', body), for a queue of at most max jobs
QueuePDVReport(d, max) ==
  /\ Running
  /\ Len(pdvJobs) < max
  /\ pdvJobs' = Append(pdvJobs, NewPdvJob(d))
  /\ UNCHANGED <<serviceVars, helper, calc, responses, updates, now, emailJobs, report, notifications, emitted, busVars, lastEmit>>

\* POST /add-pdv-report-job
AddPDVReportJob(d) == QueuePDVReport(d, MaxPdvJobs)

\* the worker leases a waiting job: at most PdvConcurrency handlers run
LeasePdv(j) ==
  /\ Running
  /\ j \in DOMAIN pdvJobs
  /\ pdvJobs[j].state = "waiting"
  /\ Cardinality(ActivePdv) < PdvConcurrency
  /\ pdvJobs' = [pdvJobs EXCEPT ![j].state = "active", ![j].pc = "pre",
                                ![j].attemptsStarted = @ + 1]
  /\ UNCHANGED <<serviceVars, helper, calc, responses, updates, now, emailJobs, report, notifications, emitted, busVars, lastEmit>>

\* faulty variant: a failed pre-analysis abandons the remaining stages
AfterPre_AbortOnFailure(ok) == IF ok THEN "sup" ELSE "persist"

\* faulty variant: the valuation stage runs whether enabled or not
AfterSup_AlwaysValuates(ok, enableADV) == "adv"

\* where processPDVReportJob goes after a stage, whether it threw or not
AfterPre(ok) == "sup"
AfterSup(ok, enableADV) == IF enableADV THEN "adv" ELSE "render"
AfterAdv(ok) == "render"
AfterRender(ok) == "persist"

\* Step 1: try { preADVReportData = await generatePrePDVData(...) } catch {}
PreStage(j, ok) ==
  /\ At(j, "pre")
  /\ pdvJobs' = [pdvJobs EXCEPT
       ![j].preADVReportData = IF ok THEN "pre-json" ELSE @,
       ![j].trace = Append(@, "pre"),
       ![j].succeeded = IF ok THEN @ \cup {"pre"} ELSE @,
       ![j].pc = AfterPre(ok)]
  /\ UNCHANGED <<serviceVars, helper, calc, responses, updates, now, emailJobs, report, notifications, emitted, busVars, lastEmit>>

\* Step 1 when every prompt is answered and the summary prompt by responses.summaryRaw
PreStageOnResponse(j) == PreStage(j, ~GeneratePrePDVData(responses.summaryRaw).threw)

\* faulty variant: the later stages are called without the pre-analysis
SeedOf_Nothing(job) == ""

\* the third argument of generateSupplementaryData and generatePDVCalculation:
\* the local preADVReportData as Step 1 left it
SeedOf(job) == job.preADVReportData

\* Step 2: try { supplementaryADVReportData = await generateSupplementaryData(...) } catch {}
\* returned: the string generateSupplementaryData returned, when it did not throw
SupStageReturning(j, ok, returned) ==
  /\ At(j, "sup")
  /\ pdvJobs' = [pdvJobs EXCEPT
       ![j].supplementaryADVReportData = IF ok THEN returned ELSE @,
       ![j].supSeed = SeedOf(pdvJobs[j]),
       ![j].trace = Append(@, "sup"),
       ![j].succeeded = IF ok THEN @ \cup {"sup"} ELSE @,
       ![j].pc = AfterSup(ok, pdvJobs[j].data.enableADV)]
  /\ UNCHANGED <<serviceVars, helper, calc, responses, updates, now, emailJobs, report, notifications, emitted, busVars, lastEmit>>

\* Step 2 with a comparison that parsed, or with a text-generation call that threw
SupStage(j, ok) == SupStageReturning(j, ok, "sup-json")

\* JSON.stringify of what a comparison response parsed to; for null it is
\* the four-character string "null", which is not null
Stringify(kind) ==
  IF kind = "object" THEN "sup-json"
  ELSE IF kind = "null" THEN "null"
  ELSE IF kind = "array" THEN "sup-array"
  ELSE "{}"

\* faulty variant: no catch around JSON.parse, the stage throws
ComparisonJson_Unguarded(comparisonRaw) == ParseJSON(ExtractJSON(comparisonRaw))

\* try { comparisonJson = JSON.parse(extractJSON(comparisonRaw)) } catch { comparisonJson = {} }
ComparisonJson(comparisonRaw) ==
  IF ParseJSON(ExtractJSON(comparisonRaw)) = "SyntaxError" THEN "emptyObject"
  ELSE ParseJSON(ExtractJSON(comparisonRaw))

\* generateSupplementaryData once the comparison prompt is answered
GenerateSupplementaryData(comparisonRaw) ==
  [threw |-> ComparisonJson(comparisonRaw) = "SyntaxError",
   returned |-> Stringify(ComparisonJson(comparisonRaw))]

\* Step 2 when the comparison prompt is answered by responses.comparisonRaw
SupStageOnResponse(j) ==
  SupStageReturning(j, ~GenerateSupplementaryData(responses.comparisonRaw).threw,
                    GenerateSupplementaryData(responses.comparisonRaw).returned)

\* Step 3: if (enableADV) try { pdvResult = await generatePDVCalculation(...) } catch {}
\* out: "ok" a result, "null" no result (no answers, unparseable extraction), "throw"
AdvStage(j, out) ==
  /\ At(j, "adv")
  /\ pdvJobs' = [pdvJobs EXCEPT
       ![j].advReportData = IF out = "ok" THEN "adv-json" ELSE @,
       ![j].advSeed = SeedOf(pdvJobs[j]),
       ![j].lowerADVRange = IF out = "ok" THEN "lower" ELSE @,
       ![j].upperADVRange = IF out = "ok" THEN "upper" ELSE @,
       ![j].trace = Append(@, "adv"),
       ![j].succeeded = IF out = "ok" THEN @ \cup {"adv"} ELSE @,
       ![j].pc = AfterAdv(out = "ok")]
  /\ UNCHANGED <<serviceVars, helper, calc, responses, updates, now, emailJobs, report, notifications, emitted, busVars, lastEmit>>

\* faulty variant: an unparseable response is read as an empty extraction and
\* valued at zero
GeneratePDVCalculation_ZeroOnFailure(extractRaw) ==
  IF ParseJSON(ExtractJSON(extractRaw)) \in {"null", "emptyObject"} THEN "throw" ELSE "ok"

\* generatePDVCalculation on the answer to its extraction prompt: "null" when
\* JSON.parse throws (catch { return null }), "throw" when the parsed value is
\* null (reading its properties throws) or an object or an array without
\* yearlyValuations (undefined.reduce throws), "ok" for an object with its
\* members
GeneratePDVCalculation(extractRaw) ==
  IF ParseJSON(ExtractJSON(extractRaw)) = "SyntaxError" THEN "null"
  ELSE IF ParseJSON(ExtractJSON(extractRaw)) = "object" THEN "ok"
  ELSE "throw"

\* Step 3 when the extraction prompt is answered by responses.extractRaw
AdvStageOnResponse(j) == AdvStage(j, GeneratePDVCalculation(responses.extractRaw))

\* Step 4: try { pdfReportData = base64 of the rendered blob } catch {}
\* renderArgs: the parsed stage data generateUnifiedADVPDFClient is called with
RenderStage(j, ok) ==
  /\ At(j, "render")
  /\ LET job == pdvJobs[j] IN
     pdvJobs' = [pdvJobs EXCEPT
       ![j].pdfReportData =
          IF ok THEN ToBase64(RenderDocument(job.data.orgName,
                                ParsedOrNull(job.preADVReportData),
                                ParsedOrNull(job.supplementaryADVReportData),
                                ParsedOrNull(job.advReportData)))
          ELSE @,
       ![j].renderArgs = <<ParsedOrNull(job.preADVReportData),
                           ParsedOrNull(job.supplementaryADVReportData),
                           ParsedOrNull(job.advReportData)>>,
       ![j].trace = Append(@, "render"),
       ![j].succeeded = IF ok THEN @ \cup {"render"} ELSE @,
       ![j].pc = AfterRender(ok)]
  /\ UNCHANGED <<serviceVars, helper, calc, responses, updates, now, emailJobs, report, notifications, emitted, busVars, lastEmit>>

\* faulty variant: the error text is recorded, the status is left as it was
FailedRow_KeepsStatus(row, message) ==
  [row EXCEPT !.emailDeliveryError = message]

\* data: { deliveryStatus: 'DELIVERY_FAILED', emailDeliveryError: message },
\* the write of both catch blocks
FailedRow(row, message) ==
  [row EXCEPT !.deliveryStatus = "DELIVERY_FAILED", !.emailDeliveryError = message]

\* faulty variant: without a rendered document nothing is saved
PersistedFields_SkipsUnrendered(job, row) ==
  IF job.pdfReportData = NoData THEN row
  ELSE [row EXCEPT
          !.preADVData = OrNull(job.preADVReportData),
          !.supplementADVData = OrNull(job.supplementaryADVReportData),
          !.ADVdata = OrNull(job.advReportData),
          !.lowerADVRange = OrNull(job.lowerADVRange),
          !.upperADVRange = OrNull(job.upperADVRange),
          !.pdfReportData = job.pdfReportData]

\* the fields written by the persist write of Step 5
PersistedFields(job, row) ==
  [row EXCEPT
     !.preADVData = OrNull(job.preADVReportData),
     !.supplementADVData = OrNull(job.supplementaryADVReportData),
     !.ADVdata = OrNull(job.advReportData),
     !.lowerADVRange = OrNull(job.lowerADVRange),
     !.upperADVRange = OrNull(job.upperADVRange),
     !.pdfReportData = job.pdfReportData]

\* Step 5 and Step 6: await db.report.update(...), then the return value; a
\* rejected write is caught by the outer catch of processPDVReportJob
PersistStage(j, ok) ==
  /\ At(j, "persist")
  /\ LET job == pdvJobs[j]
         sched == ShouldSchedule(job.pdfReportData, job.data.userEmail) IN
     IF ok
     THEN /\ report' = [report EXCEPT ![job.data.reportId] = PersistedFields(job, @)]
          /\ pdvJobs' = [pdvJobs EXCEPT
               ![j].trace = Append(@, "persist"),
               ![j].succeeded = @ \cup {"persist"},
               ![j].success = "true",
               ![j].hasEmailData = sched,
               ![j].pc = IF sched THEN "enqueue" ELSE "emit"]
     ELSE /\ report' = report
          /\ pdvJobs' = [pdvJobs EXCEPT
               ![j].trace = Append(@, "persist"),
               ![j].error = DbError,
               ![j].pc = "markFailed"]
  /\ UNCHANGED <<serviceVars, helper, calc, responses, updates, now, emailJobs, notifications, emitted, busVars, lastEmit>>

\* faulty variant: the catch goes on to the scheduling stage
PipelineCatch_StillSchedules(job) ==
  [job EXCEPT !.success = "true",
              !.hasEmailData = ShouldSchedule(job.pdfReportData, job.data.userEmail),
              !.pc = IF ShouldSchedule(job.pdfReportData, job.data.userEmail)
                     THEN "enqueue" ELSE "emit"]

\* what the outer catch of processPDVReportJob does with the error once the
\* report has been marked: it returns {success: false, error}
PipelineCatch(job) ==
  [job EXCEPT !.success = "false", !.hasEmailData = FALSE, !.pc = "emit"]

\* outer catch: try { await db.report.update(DELIVERY_FAILED, message) } catch {}
MarkReportFailed(j, ok) ==
  /\ At(j, "markFailed")
  /\ LET job == pdvJobs[j] IN
     /\ report' = IF ok
                  THEN [report EXCEPT
                          ![job.data.reportId] = FailedRow(@, job.error)]
                  ELSE report
     /\ pdvJobs' = [pdvJobs EXCEPT ![j] = PipelineCatch(job)]
  /\ UNCHANGED <<serviceVars, helper, calc, responses, updates, now, emailJobs, notifications, emitted, busVars, lastEmit>>

----------------------------------------------------------------------------
(* setupPDVReportProcessor: what the worker does with the pipeline's result *)

\* emailQueue.add('Email', data, {delay}): a delayed job of EmailQueue
\* data: the payload the broker stores; local: `const data = job.data` of the
\* handler invocation, read when the invocation starts; row: `const report`
\* of the invocation, the row the DELIVERED write answered with
NewEmailJob(data, delay, origin) ==
  [data |-> data, local |-> data, row |-> NoRow, delay |-> delay, timestamp |-> now,
   state |-> "delayed", pc |-> "idle", processedOn |-> 0, sends |-> 0, messageId |-> NoData,
   error |-> NoData, returnvalue |-> NoData, failedReason |-> NoData,
   origin |-> origin, attemptsStarted |-> 0]

\* faulty variant: the job goes back to waiting, as with an attempts option
Failed_Retries(job, reason) ==
  [job EXCEPT !.state = "waiting", !.pc = "idle", !.failedReason = reason]

\* the handler threw: BullMQ moves the job to failed (no attempts option: no retry)
Failed(job, reason) ==
  [job EXCEPT !.state = "failed", !.pc = "done", !.failedReason = reason]

\* the handler returned: BullMQ moves the job to completed
Completed(job) ==
  [job EXCEPT !.state = "completed", !.pc = "done"]

\* if (result.success && result.emailData) emailJob = await emailQueue.add(..., {delay: 300000})
ScheduleEmail(j, ok) ==
  /\ At(j, "enqueue")
  /\ LET job == pdvJobs[j] IN
     IF ok
     THEN /\ emailJobs' = Append(emailJobs,
                 NewEmailJob(EmailData(job.data, job.pdfReportData),
                             PdvDeliveryDelayMs, j))
          /\ pdvJobs' = [pdvJobs EXCEPT ![j].emailJobId = Len(emailJobs) + 1,
                                        ![j].pc = "recordId"]
     ELSE /\ emailJobs' = emailJobs
          /\ pdvJobs' = [pdvJobs EXCEPT ![j] = Failed(job, QueueError)]
  /\ UNCHANGED <<serviceVars, helper, calc, responses, updates, now, report, notifications, emitted, busVars, lastEmit>>

\* await db.report.update({ data: { bullMQJobId: emailJob.id } })
RecordEmailJobId(j, ok) ==
  /\ At(j, "recordId")
  /\ LET job == pdvJobs[j] IN
     IF ok
     THEN /\ report' = [report EXCEPT ![job.data.reportId].bullMQJobId = job.emailJobId]
          /\ pdvJobs' = [pdvJobs EXCEPT ![j].pc = "emit"]
     ELSE /\ report' = report
          /\ pdvJobs' = [pdvJobs EXCEPT ![j] = Failed(job, DbError)]
  /\ UNCHANGED <<serviceVars, helper, calc, responses, updates, now, emailJobs, notifications, emitted, busVars, lastEmit>>

\* the event the report handler emits, whatever result.success is
ReportEvent(job) ==
  [title |-> GeneratedTitle,
   organizationId |-> job.data.organizationId,
   platformId |-> job.data.platformId]

\* the notification it persists: platformId: String(jobData.platformId)
ReportNotification(job) ==
  [ReportEvent(job) EXCEPT !.platformId = StringOf(@)]

\* emitter.emit(`notificationEvent_${platformId}_${organizationId}`, {...})
EmitGenerated(j) ==
  /\ At(j, "emit")
  /\ LET job == pdvJobs[j] IN
     Emit(TopicKey(StringOf(job.data.platformId), job.data.organizationId),
          ReportEvent(job) @@ [src |-> <<"pdv", j>>])
  /\ pdvJobs' = [pdvJobs EXCEPT ![j].pc = "create"]
  /\ UNCHANGED <<serviceVars, helper, calc, responses, updates, now, emailJobs, report, notifications, listeners>>

\* await db.organizationNotification.create(...); return result
CreateGenerated(j, ok) ==
  /\ At(j, "create")
  /\ LET job == pdvJobs[j] IN
     IF ok
     THEN /\ notifications' = notifications \cup
                 {ReportNotification(job) @@ [src |-> <<"pdv", j>>]}
          /\ pdvJobs' = [pdvJobs EXCEPT ![j] = Completed(job)]
     ELSE /\ notifications' = notifications
          /\ pdvJobs' = [pdvJobs EXCEPT ![j] = Failed(job, NotifyError)]
  /\ UNCHANGED <<serviceVars, helper, calc, responses, updates, now, emailJobs, report, emitted, busVars, lastEmit>>

----------------------------------------------------------------------------
(* EmailQueue: the worker of setupQueueProcessor *)

ActiveEmail == {e \in DOMAIN emailJobs : emailJobs[e].state = "active"}

EAt(e, pc) ==
  Running /\ e \in DOMAIN emailJobs /\ emailJobs[e].state = "active" /\ emailJobs[e].pc = pc

\* db.report.update({ where: { id } }) finds a row: the record store rejects
\* the write for an id that is undefined or names no row
KnownReport(id) == id \in ReportIds

\* a delayed job may be leased once its delay has elapsed
Eligible(job) ==
  job.state = "delayed" /\ now >= job.timestamp + job.delay

LeaseEmail(e) ==
  /\ Running
  /\ e \in DOMAIN emailJobs
  /\ Eligible(emailJobs[e])
  /\ Cardinality(ActiveEmail) < EmailConcurrency
  /\ emailJobs' = [emailJobs EXCEPT ![e].state = "active", ![e].pc = "send",
                                    ![e].local = emailJobs[e].data,
                                    ![e].attemptsStarted = @ + 1,
                                    ![e].processedOn = now]
  /\ UNCHANGED <<serviceVars, helper, calc, responses, updates, now, pdvJobs, report, notifications, emitted, busVars, lastEmit>>

\* result = await postmarkClient.sendEmail(...)
SendEmail(e, ok) ==
  /\ EAt(e, "send")
  /\ emailJobs' = [emailJobs EXCEPT
       ![e].sends = @ + 1,
       ![e].messageId = IF ok THEN MessageId(e) ELSE @,
       ![e].error = IF ok THEN @ ELSE MailError,
       ![e].pc = IF ok THEN "update" ELSE "markFailed"]
  /\ UNCHANGED <<serviceVars, helper, calc, responses, updates, now, pdvJobs, report, notifications, emitted, busVars, lastEmit>>

\* report = await db.report.update({ emailId, deliveryStatus: 'DELIVERED' })
UpdateDelivered(e, ok, w) ==
  /\ EAt(e, "update")
  /\ LET job == emailJobs[e]
         row == UpdatedRow(job.local.reportId, w) IN
     IF ok /\ KnownReport(job.local.reportId)
     THEN /\ report' = [report EXCEPT
                 ![job.local.reportId].emailId = job.messageId,
                 ![job.local.reportId].deliveryStatus = "DELIVERED"]
          /\ emailJobs' = [emailJobs EXCEPT ![e].row = row, ![e].pc = "create"]
     ELSE /\ report' = report
          /\ emailJobs' = [emailJobs EXCEPT ![e].error = DbError,
                                            ![e].pc = "markFailed"]
  /\ UNCHANGED <<serviceVars, helper, calc, responses, updates, now, pdvJobs, notifications, emitted, busVars, lastEmit>>

\* the 'delivered' event, addressed from the row the write answered with
DeliveredEvent(job) ==
  [title |-> DeliveredTitle,
   organizationId |-> ReportOrg(job.row),
   platformId |-> ReportPlatform(job.row)]

\* await db.organizationNotification.create(...)
CreateDelivered(e, ok) ==
  /\ EAt(e, "create")
  /\ LET job == emailJobs[e] IN
     IF ok
     THEN /\ notifications' = notifications \cup
                 {DeliveredEvent(job) @@ [src |-> <<"email", e>>]}
          /\ emailJobs' = [emailJobs EXCEPT ![e].pc = "emit"]
     ELSE /\ notifications' = notifications
          /\ emailJobs' = [emailJobs EXCEPT ![e].error = NotifyError,
                                            ![e].pc = "markFailed"]
  /\ UNCHANGED <<serviceVars, helper, calc, responses, updates, now, pdvJobs, report, emitted, busVars, lastEmit>>

\* emitter.emit(...): the listeners have made their sends when it returns
EmitDelivered(e) ==
  /\ EAt(e, "emit")
  /\ LET job == emailJobs[e] IN
     /\ Emit(TopicKey(ReportPlatform(job.row), ReportOrg(job.row)),
             DeliveredEvent(job) @@ [src |-> <<"email", e>>])
     /\ emailJobs' = [emailJobs EXCEPT ![e].pc = "return"]
  /\ UNCHANGED <<serviceVars, helper, calc, responses, updates, now, pdvJobs, report, notifications, listeners>>

\* return { jobId: job.id, messageId: result.MessageID }: the worker records
\* the job as completed, in a later turn than the emit
ReturnDelivered(e) ==
  /\ EAt(e, "return")
  /\ LET job == emailJobs[e] IN
     emailJobs' = [emailJobs EXCEPT
        ![e] = [Completed(job) EXCEPT !.returnvalue = job.messageId]]
  /\ UNCHANGED <<serviceVars, helper, calc, responses, updates, now, pdvJobs, report, notifications, emitted, busVars, lastEmit>>

\* how the catch block of the delivery handler ends: throw e
DeliveryCatch(job, reason) == Failed(job, reason)

\* catch (e) { await db.report.update(DELIVERY_FAILED, e.message); throw e }
MarkDeliveryFailed(e, ok) ==
  /\ EAt(e, "markFailed")
  /\ LET job == emailJobs[e] IN
     IF ok /\ KnownReport(job.local.reportId)
     THEN /\ report' = [report EXCEPT
                 ![job.local.reportId] = FailedRow(@, job.error)]
          /\ emailJobs' = [emailJobs EXCEPT ![e] = DeliveryCatch(job, job.error)]
     ELSE /\ report' = report
          /\ emailJobs' = [emailJobs EXCEPT ![e] = DeliveryCatch(job, DbError)]
  /\ UNCHANGED <<serviceVars, helper, calc, responses, updates, now, pdvJobs, notifications, emitted, busVars, lastEmit>>

\* the broker clock advances
Tick ==
  /\ now < MaxNowTicks * TickMs
  /\ now' = now + TickMs
  /\ UNCHANGED <<serviceVars, helper, calc, responses, updates, pdvJobs, emailJobs, report, notifications, emitted, busVars, lastEmit>>

----------------------------------------------------------------------------
(* POST /add-mailing-job and POST /update-mailing-job *)

\* bodies of POST /add-mailing-job: reportId and subdomain are optional
MailingBodies ==
  {[subdomain |-> "acme", reportId |-> r,
    fromEmail |-> "james@12butterflies.life", toEmail |-> "user@one2b.io",
    subject |-> "Your report", htmlBody |-> "html(draft)",
    textBody |-> "text(draft)",
    attachments |-> << [Name |-> "PDV Report.pdf", Content |-> "base64:draft",
                        ContentID |-> "adv-report-pdf",
                        ContentType |-> "application/pdf"] >>] :
      r \in {"r1", Absent}}

\* bodies of POST /update-mailing-job, without the jobId
UpdateBodies ==
  {[fromEmail |-> "james@12butterflies.life", toEmail |-> "corrected@one2b.io",
    subject |-> "Your corrected report", htmlBody |-> "html(final)",
    textBody |-> "text(final)",
    attachments |-> << [Name |-> "PDV Report.pdf", Content |-> "base64:final",
                        ContentID |-> "adv-report-pdf",
                        ContentType |-> "application/pdf"] >>]}

\* the object handed to job.updateData: the six fields of the body, nothing else
UpdatedData(body) ==
  [subdomain |-> Absent, reportId |-> Absent,
   fromEmail |-> body.fromEmail, toEmail |-> body.toEmail,
   subject |-> body.subject, htmlBody |-> body.htmlBody,
   textBody |-> body.textBody,
   attachments |-> body.attachments]

\* emailQueue.getJob(jobId): the job of that id in whatever state, or null
JobFound(id) == id \in DOMAIN emailJobs

\* POST /add-mailing-job: emailQueue.add('Email', body, { delay: 172800000 });
\* a rejected add is answered ok:false and changes nothing
AddMailingJob(body) ==
  /\ Running
  /\ Len(emailJobs) < MaxMailingJobs
  /\ emailJobs' = Append(emailJobs, NewEmailJob(body, MailingDelayMs, 0))
  /\ UNCHANGED <<serviceVars, helper, calc, responses, updates, now, pdvJobs, report, notifications, emitted, busVars, lastEmit>>

\* POST /update-mailing-job up to its first await: job = await emailQueue.getJob(jobId)
\* seen: the state of the job when it was looked up
GetMailingJob(id, body, ok) ==
  /\ Running
  /\ Len(updates) < MaxUpdates
  /\ updates' = Append(updates,
        [jobId |-> id, body |-> body,
         pc |-> IF ok /\ JobFound(id) THEN "update" ELSE "done",
         reply |-> IF ~ok THEN "error"
                   ELSE IF JobFound(id) THEN "none" ELSE "Job not found",
         seen |-> IF ok /\ JobFound(id) THEN emailJobs[id].state ELSE "none",
         applied |-> "none"])
  /\ UNCHANGED <<serviceVars, helper, calc, responses, now, pdvJobs, emailJobs, report, notifications, emitted,
                 busVars, lastEmit>>

\* if (job) { await job.updateData({...}); reply ok:true }: the broker replaces
\* the stored payload of the job, whatever state the job is in
\* applied: the state of the job when its payload was replaced
UpdateJobData(q, ok) ==
  /\ Running
  /\ q \in DOMAIN updates
  /\ updates[q].pc = "update"
  /\ LET u == updates[q] IN
     IF ok
     THEN /\ emailJobs' = [emailJobs EXCEPT ![u.jobId].data = UpdatedData(u.body)]
          /\ updates' = [updates EXCEPT ![q].pc = "done", ![q].reply = "ok",
                            ![q].applied = emailJobs[u.jobId].state]
     ELSE /\ emailJobs' = emailJobs
          /\ updates' = [updates EXCEPT ![q].pc = "done", ![q].reply = "error"]
  /\ UNCHANGED <<serviceVars, helper, calc, responses, now, pdvJobs, report, notifications, emitted, busVars, lastEmit>>

\* the broker clock advances towards the delay of a mailing job
TickMailing ==
  /\ now < MaxNowTicks * MailTickMs
  /\ now' = now + MailTickMs
  /\ UNCHANGED <<serviceVars, helper, calc, responses, updates, pdvJobs, emailJobs, report, notifications, emitted, busVars, lastEmit>>

----------------------------------------------------------------------------
(* Notification bus: GET /notification/ (SSE) and POST /notification-relay/ *)

\* faulty variant: the listener is registered under the platform alone
SubscribeKey_PlatformOnly(platformId, organisationId) ==
  "notificationEvent_" \o platformId

\* the event name a connection's listener is registered under
SubscribeKey(platformId, organisationId) == TopicKey(platformId, organisationId)

\* a connection whose handler waits for its send of 'Connected': no listener
\* yet, no send of a notification pending, no rejection left unhandled
NewConn ==
  [open |-> TRUE, subscribed |-> FALSE, handler |-> "awaiting",
   pending |-> 0, unhandled |-> FALSE]

\* GET /notification/ up to its first await: keepAlive(), send 'Connected'
Connect(p, o) ==
  /\ Running
  /\ Len(conns) < MaxConns
  /\ conns' = Append(conns, [platformId |-> p, organisationId |-> o] @@ NewConn)
  /\ sent' = sent \cup {[conn |-> Len(conns) + 1, key |-> "", title |-> "Connected",
                          open |-> TRUE]}
  /\ UNCHANGED <<serviceVars, helper, calc, responses, updates, pipelineVars, emitted, listeners, lastEmit>>

\* faulty variant: the emitter replays what was published under the key
Backlog_Replays(key) == {m \in emitted : m.key = key}

\* the events myEmitter.on hands to a listener at registration: an
\* EventEmitter stores no event, a listener is only called by later emits
Backlog(key) == {}

\* the send of 'Connected' resolves: myEmitter.on(key, listener);
\* reply.sse.onClose(...)
Subscribe(c) ==
  /\ Running
  /\ c \in DOMAIN conns
  /\ conns[c].handler = "awaiting"
  /\ listeners' = Append(listeners,
        [event |-> SubscribeKey(conns[c].platformId, conns[c].organisationId),
         conn |-> c])
  /\ conns' = [conns EXCEPT ![c].subscribed = TRUE, ![c].handler = "done"]
  /\ sent' = sent \cup
        {[conn |-> c, key |-> m.key, title |-> m.ev.title, open |-> conns[c].open] :
           m \in Backlog(SubscribeKey(conns[c].platformId, conns[c].organisationId))}
  /\ UNCHANGED <<serviceVars, helper, calc, responses, updates, pipelineVars, emitted, lastEmit>>

\* the send of 'Connected' rejects: the catch block sends an event 'error' on
\* the same reply; myEmitter.on and reply.sse.onClose are never reached
CatchConnected(c) ==
  /\ Running
  /\ c \in DOMAIN conns
  /\ conns[c].handler = "awaiting"
  /\ conns' = [conns EXCEPT ![c].handler = "catch"]
  /\ sent' = sent \cup {[conn |-> c, key |-> "", title |-> "error",
                          open |-> conns[c].open]}
  /\ UNCHANGED <<serviceVars, helper, calc, responses, updates, pipelineVars, emitted, listeners, lastEmit>>

\* the send of 'error' settles and the handler ends without a listener: it
\* returns, or it rejects with the error of that send, which the server
\* answers as a failed request
ErrorSent(c, ok) ==
  /\ Running
  /\ c \in DOMAIN conns
  /\ conns[c].handler = "catch"
  /\ conns' = [conns EXCEPT ![c].handler = IF ok THEN "returned" ELSE "rejected"]
  /\ UNCHANGED <<serviceVars, helper, calc, responses, updates, pipelineVars, emitted, listeners, sent, lastEmit>>

\* a send made by the listener of connection c settles. The listener awaits
\* it and nothing catches: when the send rejects, the promise of the listener
\* rejects unhandled and the Node process terminates
NotificationSent(c, ok) ==
  /\ Running
  /\ c \in DOMAIN conns
  /\ conns[c].pending > 0
  /\ conns' = [conns EXCEPT ![c].pending = @ - 1,
                            ![c].unhandled = ~ok]
  /\ UNCHANGED <<serviceVars, helper, calc, responses, updates, pipelineVars, emitted, listeners, sent, lastEmit>>

\* what the onClose callback leaves registered: it only logs 'Connection closed'
OnClose(c, ls) == ls

\* the client goes away; the onClose callback runs
Disconnect(c) ==
  /\ Running
  /\ c \in DOMAIN conns
  /\ conns[c].open
  /\ conns' = [conns EXCEPT ![c].open = FALSE]
  /\ listeners' = OnClose(c, listeners)
  /\ UNCHANGED <<serviceVars, helper, calc, responses, updates, pipelineVars, emitted, sent, lastEmit>>

\* POST /notification-relay/: myEmitter.emit(key, body)
Relay(p, o) ==
  /\ Running
  /\ \A c \in ListenersOf(TopicKey(p, o)) : conns[c].pending < MaxPendingSends
  /\ Emit(TopicKey(p, o),
          [title |-> "relayed", organizationId |-> o, platformId |-> p,
           src |-> <<"relay", 0>>])
  /\ UNCHANGED <<serviceVars, helper, calc, responses, updates, pipelineVars, listeners>>

----------------------------------------------------------------------------
(* The tenant ids of a subscriber and of a publisher *)

\* a request header: a string, or not sent at all
Missing == [present |-> FALSE, v |-> ""]
Id(v) == [present |-> TRUE, v |-> v]

\* ${x} in a template literal: the string, or 'undefined' for undefined
Interpolate(x) == IF x.present THEN x.v ELSE Undefined

\* ids with and without the separator of the event name, and the id that
\* reads as a missing one
TenantPlatforms == {Id("a"), Id("a_b")}
TenantOrgs == {Id("c"), Id("b_c"), Id(Undefined)}

\* x-platform-id and x-organisation-id of GET /notification/: any strings,
\* the organisation header possibly missing
HeaderPairs == [p : TenantPlatforms, o : TenantOrgs \cup {Missing}]

\* platformId and organizationId of a relayed body: required strings
BodyPairs == [p : TenantPlatforms, o : TenantOrgs]

\* GET /notification/ with headers h, up to its first await
ConnectWithHeaders(h) ==
  /\ Running
  /\ Len(conns) < MaxTenantConns
  /\ conns' = Append(conns, [platformId |-> Interpolate(h.p),
                             organisationId |-> Interpolate(h.o),
                             headers |-> h] @@ NewConn)
  /\ sent' = sent \cup {[conn |-> Len(conns) + 1, key |-> "", title |-> "Connected",
                          open |-> TRUE]}
  /\ UNCHANGED <<serviceVars, helper, calc, responses, updates, pipelineVars, emitted, listeners, lastEmit>>

\* POST /notification-relay/ with body b
RelayBody(b) ==
  /\ Cardinality(emitted) < MaxTenantRelays
  /\ Relay(b.p.v, b.o.v)

----------------------------------------------------------------------------
(* Specifications *)

PdvNext ==
  \/ \E d \in PdvPayloads : AddPDVReportJob(d)
  \/ \E j \in 1..MaxPdvJobs :
       \/ LeasePdv(j)
       \/ \E ok \in BOOLEAN :
            \/ PreStage(j, ok)
            \/ SupStage(j, ok)
            \/ RenderStage(j, ok)
            \/ PersistStage(j, ok)
            \/ MarkReportFailed(j, ok)
            \/ ScheduleEmail(j, ok)
            \/ RecordEmailJobId(j, ok)
            \/ CreateGenerated(j, ok)
       \/ \E out \in {"ok", "null", "throw"} : AdvStage(j, out)
       \/ EmitGenerated(j)

\* the report worker with more jobs queued than it has slots
PoolNext ==
  \/ \E d \in PoolPayloads : QueuePDVReport(d, MaxPoolJobs)
  \/ \E j \in 1..MaxPoolJobs :
       \/ LeasePdv(j)
       \/ \E ok \in BOOLEAN :
            \/ PreStage(j, ok)
            \/ SupStage(j, ok)
            \/ RenderStage(j, ok)
            \/ PersistStage(j, ok)
            \/ MarkReportFailed(j, ok)
            \/ CreateGenerated(j, ok)
       \/ EmitGenerated(j)

\* one report job whose pre-analysis is computed from the summary response
SummaryNext ==
  \/ \E d \in PoolPayloads : QueuePDVReport(d, 1)
  \/ LeasePdv(1)
  \/ PreStageOnResponse(1)
  \/ \E ok \in BOOLEAN :
       \/ SupStage(1, ok)
       \/ RenderStage(1, ok)
       \/ PersistStage(1, ok)
       \/ MarkReportFailed(1, ok)
       \/ CreateGenerated(1, ok)
  \/ EmitGenerated(1)

\* one report job whose valuation is computed from the extraction response
ExtractionNext ==
  \/ \E d \in ValuationPayloads : QueuePDVReport(d, 1)
  \/ LeasePdv(1)
  \/ PreStageOnResponse(1)
  \/ AdvStageOnResponse(1)
  \/ \E ok \in BOOLEAN :
       \/ SupStage(1, ok)
       \/ RenderStage(1, ok)
       \/ PersistStage(1, ok)
       \/ MarkReportFailed(1, ok)
       \/ ScheduleEmail(1, ok)
       \/ RecordEmailJobId(1, ok)
       \/ CreateGenerated(1, ok)
  \/ EmitGenerated(1)

\* one report job whose comparison prompt is answered, or whose call throws
SupplementNext ==
  \/ \E d \in PoolPayloads : QueuePDVReport(d, 1)
  \/ LeasePdv(1)
  \/ SupStageOnResponse(1)
  \/ SupStage(1, FALSE)
  \/ \E ok \in BOOLEAN :
       \/ PreStage(1, ok)
       \/ RenderStage(1, ok)
       \/ PersistStage(1, ok)
       \/ MarkReportFailed(1, ok)
       \/ CreateGenerated(1, ok)
  \/ EmitGenerated(1)

\* the steps of the delivery worker on job e
EmailStep(e) ==
  \/ LeaseEmail(e)
  \/ \E ok \in BOOLEAN :
       \/ SendEmail(e, ok)
       \/ \E w \in WorkflowOrgs : UpdateDelivered(e, ok, w)
       \/ CreateDelivered(e, ok)
       \/ MarkDeliveryFailed(e, ok)
  \/ EmitDelivered(e)
  \/ ReturnDelivered(e)

EmailNext == \E e \in 1..MaxEmailJobs : EmailStep(e)

MailNext ==
  \/ \E body \in MailingBodies : AddMailingJob(body)
  \/ \E id \in 1..(MaxMailingJobs + 1), body \in UpdateBodies, ok \in BOOLEAN :
       GetMailingJob(id, body, ok)
  \/ \E q \in 1..MaxUpdates, ok \in BOOLEAN : UpdateJobData(q, ok)
  \/ \E e \in 1..MaxMailingJobs : EmailStep(e)
  \/ TickMailing

BusNext ==
  \/ \E p \in PlatformIds, o \in OrgIds : Connect(p, o)
  \/ \E c \in 1..MaxConns :
       \/ Subscribe(c)
       \/ CatchConnected(c)
       \/ Disconnect(c)
       \/ \E ok \in BOOLEAN : ErrorSent(c, ok) \/ NotificationSent(c, ok)
  \/ \E p \in PlatformIds, o \in OrgIds : Relay(p, o)

FirefliesNext ==
  \/ \E m \in MeetingIds, ev \in EventTypes : ReceiveWebhook(m, ev)
  \/ \E h \in 1..MaxHooks, ok \in BOOLEAN :
       \/ FindMeeting(h, ok)
       \/ CreateMeeting(h, ok)
       \/ MarkProcessing(h, ok)
       \/ \E organizer_email \in OrganizerEmails : FetchTranscript(h, ok, organizer_email)
       \/ MatchMeeting(h, ok)
       \/ UpdateMeeting(h, ok)
       \/ MarkMeetingFailed(h, ok)

TenantNext ==
  \/ \E h \in HeaderPairs : ConnectWithHeaders(h)
  \/ \E c \in 1..MaxTenantConns :
       \/ Subscribe(c)
       \/ CatchConnected(c)
       \/ Disconnect(c)
       \/ \E ok \in BOOLEAN : ErrorSent(c, ok) \/ NotificationSent(c, ok)
  \/ \E b \in BodyPairs : RelayBody(b)

\* the report pipeline and the delivery dispatcher
Next == PdvNext \/ EmailNext \/ Tick

Spec == Init /\ [][Next]_vars

\* the notification bus and its SSE gateway
SpecBus == Init /\ [][BusNext]_vars

\* the service has one summary response in store, any text of the bound
InitSummary ==
  /\ now = 0 /\ pdvJobs = << >> /\ emailJobs = << >>
  /\ report = [r \in ReportIds |-> NewReport]
  /\ notifications = {} /\ emitted = {} /\ listeners = << >> /\ conns = << >>
  /\ sent = {} /\ lastEmit = [key |-> "", invoked |-> {}, registered |-> {}]
  /\ updates = << >>
  /\ responses \in {[summaryRaw |-> t, extractRaw |-> << >>, comparisonRaw |-> << >>] :
                      t \in Texts}
  /\ calc = NoCalculation
  /\ wa = NoSession /\ ff = NoMeetings
  /\ helper = NoHelper

\* the pre-analysis stage on a given summary response
SpecSummary == InitSummary /\ [][SummaryNext]_vars

\* a call of generatePDVCalculation with any extracted and pre-analysis percentages
InitValuation ==
  /\ now = 0 /\ pdvJobs = << >> /\ emailJobs = << >>
  /\ report = [r \in ReportIds |-> NewReport]
  /\ notifications = {} /\ emitted = {} /\ listeners = << >> /\ conns = << >>
  /\ sent = {} /\ lastEmit = [key |-> "", invoked |-> {}, registered |-> {}]
  /\ updates = << >>
  /\ responses = [summaryRaw |-> << >>, extractRaw |-> << >>, comparisonRaw |-> << >>]
  /\ calc \in CalculationInputs
  /\ wa = NoSession /\ ff = NoMeetings
  /\ helper = NoHelper

ValuationNext == SanitizePercents

\* the valuation stage
SpecValuation == InitValuation /\ [][ValuationNext]_vars

\* the service has one extraction response in store, any text of the bound,
\* and answers the summary prompt with a well-formed object
InitExtraction ==
  /\ now = 0 /\ pdvJobs = << >> /\ emailJobs = << >>
  /\ report = [r \in ReportIds |-> NewReport]
  /\ notifications = {} /\ emitted = {} /\ listeners = << >> /\ conns = << >>
  /\ sent = {} /\ lastEmit = [key |-> "", invoked |-> {}, registered |-> {}]
  /\ updates = << >>
  /\ responses \in {[summaryRaw |-> <<"{", "m", "}">>, extractRaw |-> t,
                       comparisonRaw |-> << >>] : t \in Texts}
  /\ calc = NoCalculation
  /\ wa = NoSession /\ ff = NoMeetings
  /\ helper = NoHelper

\* the valuation stage on a given extraction response
SpecExtraction == InitExtraction /\ [][ExtractionNext]_vars

\* the service has one comparison response in store, any text of the bound
InitSupplement ==
  /\ now = 0 /\ pdvJobs = << >> /\ emailJobs = << >>
  /\ report = [r \in ReportIds |-> NewReport]
  /\ notifications = {} /\ emitted = {} /\ listeners = << >> /\ conns = << >>
  /\ sent = {} /\ lastEmit = [key |-> "", invoked |-> {}, registered |-> {}]
  /\ updates = << >>
  /\ responses \in {[summaryRaw |-> << >>, extractRaw |-> << >>,
                       comparisonRaw |-> t] : t \in Texts}
  /\ calc = NoCalculation
  /\ wa = NoSession /\ ff = NoMeetings
  /\ helper = NoHelper

\* the supplementary stage on a given comparison response
SpecSupplement == InitSupplement /\ [][SupplementNext]_vars

\* extractPercentageFromText is called on an answer, any text of the bound
InitPercentage ==
  /\ now = 0 /\ pdvJobs = << >> /\ emailJobs = << >>
  /\ report = [r \in ReportIds |-> NewReport]
  /\ notifications = {} /\ emitted = {} /\ listeners = << >> /\ conns = << >>
  /\ sent = {} /\ lastEmit = [key |-> "", invoked |-> {}, registered |-> {}]
  /\ updates = << >>
  /\ responses = [summaryRaw |-> << >>, extractRaw |-> << >>, comparisonRaw |-> << >>]
  /\ calc = NoCalculation
  /\ wa = NoSession /\ ff = NoMeetings
  /\ helper \in {[fn |-> "extractPercentageFromText", pc |-> "called", arg |-> t,
                    result |-> NoPercentage] : t \in Answers}

PercentageNext == ReturnPercentage

\* the percentage read from a free-text answer
SpecPercentage == InitPercentage /\ [][PercentageNext]_vars

\* callClaude has sent its request and awaits the message
InitClaude ==
  /\ now = 0 /\ pdvJobs = << >> /\ emailJobs = << >>
  /\ report = [r \in ReportIds |-> NewReport]
  /\ notifications = {} /\ emitted = {} /\ listeners = << >> /\ conns = << >>
  /\ sent = {} /\ lastEmit = [key |-> "", invoked |-> {}, registered |-> {}]
  /\ updates = << >>
  /\ responses = [summaryRaw |-> << >>, extractRaw |-> << >>, comparisonRaw |-> << >>]
  /\ calc = NoCalculation
  /\ wa = NoSession /\ ff = NoMeetings
  /\ helper \in {[fn |-> "callClaude", pc |-> "awaiting",
                    arg |-> [options |-> o, content |-> << >>],
                    result |-> [response |-> << >>, returned |-> << >>]] :
                     o \in CallOptions}

ClaudeNext == \E content \in Contents : ReturnFromClaude(content)

\* the text-generation helper
SpecClaude == InitClaude /\ [][ClaudeNext]_vars

\* extractJSON is called on a response, any text of the bound
InitJSON ==
  /\ now = 0 /\ pdvJobs = << >> /\ emailJobs = << >>
  /\ report = [r \in ReportIds |-> NewReport]
  /\ notifications = {} /\ emitted = {} /\ listeners = << >> /\ conns = << >>
  /\ sent = {} /\ lastEmit = [key |-> "", invoked |-> {}, registered |-> {}]
  /\ updates = << >>
  /\ responses = [summaryRaw |-> << >>, extractRaw |-> << >>, comparisonRaw |-> << >>]
  /\ calc = NoCalculation
  /\ wa = NoSession /\ ff = NoMeetings
  /\ helper \in {[fn |-> "extractJSON", pc |-> "called", arg |-> t,
                    result |-> << >>, again |-> << >>] : t \in Texts}

JSONNext == ReturnJSON \/ ReturnJSONAgain

\* the Fireflies webhook
SpecFireflies == Init /\ [][FirefliesNext]_vars
\* the WhatsApp session; the group row says COMPLETED when an earlier run of
\* the server has imported the group
InitWhatsApp ==
  /\ now = 0 /\ pdvJobs = << >> /\ emailJobs = << >>
  /\ report = [r \in ReportIds |-> NewReport]
  /\ notifications = {} /\ emitted = {} /\ listeners = << >> /\ conns = << >>
  /\ sent = {} /\ lastEmit = [key |-> "", invoked |-> {}, registered |-> {}]
  /\ updates = << >>
  /\ responses = [summaryRaw |-> << >>, extractRaw |-> << >>, comparisonRaw |-> << >>]
  /\ calc = NoCalculation
  /\ wa \in {NoSession, [NoSession EXCEPT !.group = "COMPLETED"]}
  /\ ff = NoMeetings
  /\ helper = NoHelper

SpecWhatsApp == InitWhatsApp /\ [][WhatsAppNext]_vars

InitMessages ==
  /\ now = 0 /\ pdvJobs = << >> /\ emailJobs = << >>
  /\ report = [r \in ReportIds |-> NewReport]
  /\ notifications = {} /\ emitted = {} /\ listeners = << >> /\ conns = << >>
  /\ sent = {} /\ lastEmit = [key |-> "", invoked |-> {}, registered |-> {}]
  /\ updates = << >>
  /\ responses = [summaryRaw |-> << >>, extractRaw |-> << >>, comparisonRaw |-> << >>]
  /\ calc = NoCalculation
  /\ wa \in {Listening, NoSession} /\ ff = NoMeetings
  /\ helper = NoHelper

\* message storage on a connected session
SpecMessages == InitMessages /\ [][MessagesNext]_vars

\* the notification bus with tenant ids of every shape
SpecTenants == Init /\ [][TenantNext]_vars

\* the JSON extraction helper
SpecJSON == InitJSON /\ [][JSONNext]_vars

\* a call of generatePDVCalculation on a parsed extraction response
InitArithmetic ==
  /\ now = 0 /\ pdvJobs = << >> /\ emailJobs = << >>
  /\ report = [r \in ReportIds |-> NewReport]
  /\ notifications = {} /\ emitted = {} /\ listeners = << >> /\ conns = << >>
  /\ sent = {} /\ lastEmit = [key |-> "", invoked |-> {}, registered |-> {}]
  /\ updates = << >>
  /\ responses = [summaryRaw |-> << >>, extractRaw |-> << >>, comparisonRaw |-> << >>]
  /\ calc \in ArithmeticInputs
  /\ wa = NoSession /\ ff = NoMeetings
  /\ helper = NoHelper

ArithmeticNext == SanitizePercents \/ ComputeValuation

\* the arithmetic of the valuation stage
SpecArithmetic == InitArithmetic /\ [][ArithmeticNext]_vars

\* the worker pool of PDVReportQueue
SpecPool == Init /\ [][PoolNext]_vars

\* the mailing-job routes and the delivery dispatcher
SpecMail == Init /\ [][MailNext]_vars

----------------------------------------------------------------------------
(* Properties of the report pipeline *)

JobIds == DOMAIN pdvJobs
EmailIds == DOMAIN emailJobs

\* the Delivery jobs enqueued by report job j
DeliveriesOf(j) == {e \in EmailIds : emailJobs[e].origin = j}

\* report job j has left the render stage behind
Rendered(j) == "render" \in {pdvJobs[j].trace[i] : i \in DOMAIN pdvJobs[j].trace}

\* report job j has run to its end, completed or failed
Finished(j) == pdvJobs[j].pc = "done"

\* C1: a Delivery job is enqueued, and bullMQJobId written, only by a run that
\* produced a rendered document and has a non-empty userEmail; a run whose
\* render failed enqueues nothing and writes no bullMQJobId.
C1_DeliveryOnlyWithDocumentAndRecipient ==
  /\ \A e \in EmailIds :
       LET job == pdvJobs[emailJobs[e].origin] IN
       /\ job.pdfReportData # NoData
       /\ job.data.userEmail # ""
       /\ emailJobs[e].data.attachments[1].Content # NoData
       /\ emailJobs[e].data.toEmail # ""
  /\ \A j \in JobIds :
       (Rendered(j) /\ ~(pdvJobs[j].pdfReportData # NoData /\ pdvJobs[j].data.userEmail # ""))
         => /\ DeliveriesOf(j) = {}
            /\ pdvJobs[j].emailJobId = 0
            /\ pdvJobs[j].pc \notin {"enqueue", "recordId"}
  /\ \A r \in ReportIds :
       report[r].bullMQJobId # 0 =>
         \E j \in JobIds :
           /\ pdvJobs[j].data.reportId = r
           /\ pdvJobs[j].emailJobId = report[r].bullMQJobId
           /\ pdvJobs[j].pdfReportData # NoData
           /\ pdvJobs[j].data.userEmail # ""

\* a run with a recipient whose render failed has finished: nothing was scheduled
C1_Witness ==
  \E j \in JobIds :
    /\ Finished(j) /\ pdvJobs[j].state = "completed"
    /\ pdvJobs[j].data.userEmail # ""
    /\ pdvJobs[j].pdfReportData = NoData
    /\ DeliveriesOf(j) = {}
    /\ report[pdvJobs[j].data.reportId].bullMQJobId = 0

\* C2 (as claimed): a run whose persist write threw has marked the report
\* DELIVERY_FAILED with the captured message and ends failed, not completed
C2_PipelineFailureFailsJob ==
  \A j \in JobIds :
    (Finished(j) /\ pdvJobs[j].error = DbError) =>
      /\ pdvJobs[j].state = "failed"
      /\ report[pdvJobs[j].data.reportId].deliveryStatus = "DELIVERY_FAILED"
      /\ report[pdvJobs[j].data.reportId].emailDeliveryError = DbError

\* the variant a notification title stands for
VariantOf(title) == IF title = GeneratedTitle THEN "success" ELSE "failure"

\* C3 (as claimed): every finished execution has emitted, on the topic of its
\* (platformId, organizationId), and durably recorded a notification of the
\* variant that matches its outcome
C3_EveryRunNotifiesItsOutcome ==
  \A j \in JobIds :
    Finished(j) =>
      LET job == pdvJobs[j]
          outcome == IF job.state = "completed" /\ job.success = "true"
                     THEN "success" ELSE "failure" IN
      /\ \E m \in emitted :
           /\ m.ev.src = <<"pdv", j>>
           /\ m.key = TopicKey(StringOf(job.data.platformId), job.data.organizationId)
           /\ VariantOf(m.ev.title) = outcome
      /\ \E n \in notifications :
           /\ n.src = <<"pdv", j>>
           /\ VariantOf(n.title) = outcome
      /\ \A m \in emitted :
           m.ev.src = <<"pdv", j>> => VariantOf(m.ev.title) = outcome

\* the stages processPDVReportJob is to attempt, in order
ExpectedStages(enableADV) ==
  IF enableADV THEN <<"pre", "sup", "adv", "render", "persist">>
  ELSE <<"pre", "sup", "render", "persist">>

IsPrefix(s, t) == Len(s) <= Len(t) /\ SubSeq(t, 1, Len(s)) = s

\* C4: whatever stages 1-4 did, the stages of a run are attempted in full:
\* supplementary after pre-analysis, valuation when enabled, render, and the
\* persist write; a run past the persist write has attempted every one of them.
C4_StageFailuresNeverSkipLaterStages ==
  \A j \in JobIds :
    LET job == pdvJobs[j]
        exp == ExpectedStages(job.data.enableADV) IN
    /\ IsPrefix(job.trace, exp)
    /\ job.pc \in {"pre", "sup", "adv", "render", "persist"} =>
         (Len(job.trace) < Len(exp) /\ exp[Len(job.trace) + 1] = job.pc)
    /\ job.pc \notin {"idle", "pre", "sup", "adv", "render", "persist"} =>
         job.trace = exp

\* all four stages failed and the persist write was still attempted
C4_Witness ==
  \E j \in JobIds :
    /\ pdvJobs[j].data.enableADV
    /\ pdvJobs[j].preADVReportData = ""
    /\ pdvJobs[j].supplementaryADVReportData = ""
    /\ pdvJobs[j].advReportData = ""
    /\ pdvJobs[j].pdfReportData = NoData
    /\ pdvJobs[j].trace = <<"pre", "sup", "adv", "render", "persist">>

\* the stages report job j has attempted so far
Attempted(j) == {pdvJobs[j].trace[i] : i \in DOMAIN pdvJobs[j].trace}

\* C11: a run with enableADV = false attempts pre-analysis and supplementary,
\* never the valuation stage; its renderer is called with valuation null; and
\* its persist write stores ADVdata = null and null valuation range fields.
C11_DisabledValuationIsSkipped ==
  /\ [](\A j \in JobIds :
         LET job == pdvJobs[j] IN
         ~job.data.enableADV =>
           /\ "adv" \notin Attempted(j) /\ job.pc # "adv"
           /\ job.advReportData = "" /\ job.lowerADVRange = "" /\ job.upperADVRange = ""
           /\ "render" \in Attempted(j) =>
                /\ {"pre", "sup"} \subseteq Attempted(j)
                /\ job.renderArgs # << >> /\ job.renderArgs[3] = NoData)
  /\ [][\A j \in 1..MaxPdvJobs :
          (At(j, "persist") /\ ~pdvJobs[j].data.enableADV
             /\ pdvJobs'[j].success = "true") =>
            LET row == report'[pdvJobs[j].data.reportId] IN
            /\ row.ADVdata = NoData
            /\ row.lowerADVRange = NoData /\ row.upperADVRange = NoData]_vars

\* a run without valuation has rendered and persisted: both other stages ran
C11_Witness ==
  \E j \in JobIds :
    /\ ~pdvJobs[j].data.enableADV
    /\ pdvJobs[j].success = "true"
    /\ pdvJobs[j].trace = <<"pre", "sup", "render", "persist">>
    /\ pdvJobs[j].preADVReportData # "" /\ pdvJobs[j].pdfReportData # NoData
    /\ pdvJobs[j].renderArgs[3] = NoData
    /\ report[pdvJobs[j].data.reportId].ADVdata = NoData
    /\ report[pdvJobs[j].data.reportId].preADVData # NoData

\* what a stage of report job j has to show in the record: its own result
\* when it succeeded, null when it failed or was skipped
Saved(j, stage, result) == IF stage \in pdvJobs[j].succeeded THEN result ELSE NoData

\* C12: the persist write stores, for pre-analysis, supplementary, valuation
\* and rendered document, the stage's own result when the stage succeeded and
\* null when it failed or was skipped; a failed render leaves the results of
\* stages 1-3 saved and the rendered-document field null.
C12_PersistStoresWhatSucceeded ==
  [][\A j \in 1..MaxPdvJobs :
       (At(j, "persist") /\ pdvJobs'[j].success = "true") =>
         LET job == pdvJobs[j]
             row == report'[job.data.reportId] IN
         /\ row.preADVData = Saved(j, "pre", "pre-json")
         /\ row.supplementADVData = Saved(j, "sup", "sup-json")
         /\ row.ADVdata = Saved(j, "adv", "adv-json")
         /\ row.lowerADVRange = Saved(j, "adv", "lower")
         /\ row.upperADVRange = Saved(j, "adv", "upper")
         /\ row.pdfReportData =
              Saved(j, "render",
                    ToBase64(RenderDocument(job.data.orgName,
                                            Saved(j, "pre", "pre-json"),
                                            Saved(j, "sup", "sup-json"),
                                            Saved(j, "adv", "adv-json"))))]_vars

\* the render failed after three good stages, and their results are on record
C12_Witness ==
  \E j \in JobIds :
    /\ pdvJobs[j].success = "true"
    /\ pdvJobs[j].succeeded = {"pre", "sup", "adv", "persist"}
    /\ "render" \in Attempted(j)
    /\ report[pdvJobs[j].data.reportId].preADVData = "pre-json"
    /\ report[pdvJobs[j].data.reportId].supplementADVData = "sup-json"
    /\ report[pdvJobs[j].data.reportId].ADVdata = "adv-json"
    /\ report[pdvJobs[j].data.reportId].pdfReportData = NoData

\* C15: a Delivery job is enqueued only by a report job whose persist write
\* has completed successfully, at its scheduling stage; a report job whose
\* persist write failed has enqueued no Delivery job.
C15_DeliveryFollowsPersist ==
  /\ [](\A j \in JobIds :
         /\ DeliveriesOf(j) # {} =>
              /\ "persist" \in pdvJobs[j].succeeded
              /\ pdvJobs[j].trace = ExpectedStages(pdvJobs[j].data.enableADV)
              /\ pdvJobs[j].pc \notin {"idle", "pre", "sup", "adv", "render",
                                       "persist", "markFailed", "enqueue"}
         /\ ("persist" \in Attempted(j) /\ "persist" \notin pdvJobs[j].succeeded) =>
              /\ DeliveriesOf(j) = {}
              /\ pdvJobs[j].pc # "enqueue")
  /\ [][\A e \in DOMAIN emailJobs' \ DOMAIN emailJobs :
          LET j == emailJobs'[e].origin IN
          /\ At(j, "enqueue")
          /\ "persist" \in pdvJobs[j].succeeded]_vars

\* the persist write of a run with document and recipient failed: the run has
\* ended and nothing was enqueued
C15_Witness ==
  \E j \in JobIds :
    /\ Finished(j)
    /\ pdvJobs[j].pdfReportData # NoData /\ pdvJobs[j].data.userEmail # ""
    /\ "persist" \in Attempted(j) /\ "persist" \notin pdvJobs[j].succeeded
    /\ DeliveriesOf(j) = {}

----------------------------------------------------------------------------
(* Properties of the delivery dispatcher *)

EFinished(e) == emailJobs[e].pc = "done"

\* the mail transport rejected the message of Delivery job e
MailFailed(e) == emailJobs[e].sends > 0 /\ emailJobs[e].messageId = NoData

\* the catch block of Delivery job e has just run
CatchStep(e) ==
  /\ e \in EmailIds
  /\ emailJobs[e].pc = "markFailed"
  /\ emailJobs'[e].pc = "done"

\* C5 (as claimed): when the mail transport fails, the catch of the handler
\* updates the report of the job to DELIVERY_FAILED with the error text of the
\* transport and rethrows that error, so the Delivery job ends failed and is
\* never completed
C5_MailFailureMarksRecord ==
  /\ [](\A e \in EmailIds :
         MailFailed(e) =>
           /\ emailJobs[e].state # "completed"
           /\ emailJobs[e].pc \in {"markFailed", "done"}
           /\ emailJobs[e].error = MailError
           /\ EFinished(e) => emailJobs[e].state = "failed")
  /\ [][\A e \in 1..MaxEmailJobs :
          (CatchStep(e) /\ MailFailed(e)) =>
            LET r == emailJobs[e].data.reportId IN
            /\ report'[r].deliveryStatus = "DELIVERY_FAILED"
            /\ report'[r].emailDeliveryError = MailError
            /\ emailJobs'[e].failedReason = MailError]_vars

\* C6 (as claimed): once the transport has accepted the message, the execution
\* has called it exactly once and ends with the report DELIVERED under the
\* transport's message id, the 'delivered' event recorded and emitted, and the
\* job completed with the message id as its result
C6_AcceptedMailCompletesDelivered ==
  \A e \in EmailIds :
    (EFinished(e) /\ emailJobs[e].messageId # NoData) =>
      /\ emailJobs[e].sends = 1
      /\ emailJobs[e].state = "completed"
      /\ emailJobs[e].returnvalue = emailJobs[e].messageId
      /\ \E n \in notifications :
           n.src = <<"email", e>> /\ n.title = DeliveredTitle
      /\ \E m \in emitted :
           m.ev.src = <<"email", e>> /\ m.ev.title = DeliveredTitle

\* C9 (as claimed): a rejected durable write of a notification does not keep
\* the event from being published and does not fail the job or touch the
\* report's delivery status
C9_NotificationWritesIndependent ==
  /\ \A j \in JobIds :
       pdvJobs[j].failedReason = NotifyError =>
         /\ pdvJobs[j].state # "failed"
         /\ \E m \in emitted : m.ev.src = <<"pdv", j>>
  /\ \A e \in EmailIds :
       (EFinished(e) /\ emailJobs[e].error = NotifyError) =>
         /\ emailJobs[e].state = "completed"
         /\ report[emailJobs[e].data.reportId].deliveryStatus # "DELIVERY_FAILED"
         /\ \E m \in emitted : m.ev.src = <<"email", e>>

\* C10 (as claimed): a run that has ended, whose render succeeded and whose
\* userEmail is non-empty, has enqueued exactly one Delivery
\* job, delayed by 300000 ms, carrying the rendered document, with its id on
\* the report record, and not executed before the delay has elapsed
C10_RenderedRunSchedulesOneDelivery ==
  \A j \in JobIds :
    (Finished(j) /\ pdvJobs[j].pdfReportData # NoData
                 /\ pdvJobs[j].data.userEmail # "") =>
      \E e \in EmailIds :
        /\ DeliveriesOf(j) = {e}
        /\ emailJobs[e].delay = 300000
        /\ emailJobs[e].data.attachments[1].Content = pdvJobs[j].pdfReportData
        /\ report[pdvJobs[j].data.reportId].bullMQJobId = e
        /\ emailJobs[e].state # "delayed" =>
             emailJobs[e].processedOn >= emailJobs[e].timestamp + 300000

\* report job j has got past the enqueue of its Delivery job
Scheduled(j) ==
  pdvJobs[j].pc \in {"recordId", "emit", "create"} \/ pdvJobs[j].state = "completed"

\* C10 (amended): a run whose render succeeded, whose userEmail is non-empty
\* and whose persist write succeeded enqueues at most one Delivery job, and
\* exactly one once it is past the enqueue; the job is delayed by 300000 ms and
\* carries the rendered document as base64 attachment; the run writes the
\* job's id to the report record before it notifies; any other run enqueues
\* none; no Delivery job is executed before its delay has elapsed.
C10_PersistedRunSchedulesOneDelivery ==
  /\ [](/\ \A j \in JobIds :
            LET job == pdvJobs[j] IN
            /\ Cardinality(DeliveriesOf(j)) <= 1
            /\ job.hasEmailData <=>
                 (job.success = "true" /\ job.pdfReportData # NoData
                                       /\ job.data.userEmail # "")
            /\ (job.hasEmailData /\ Scheduled(j)) =>
                 (DeliveriesOf(j) = {job.emailJobId})
            /\ ~job.hasEmailData => DeliveriesOf(j) = {}
        /\ \A e \in EmailIds :
            LET job == pdvJobs[emailJobs[e].origin] IN
            /\ emailJobs[e].delay = 300000
            /\ Len(emailJobs[e].data.attachments) = 1
            /\ emailJobs[e].data.attachments[1].Content = job.pdfReportData
            /\ emailJobs[e].data.attachments[1].ContentType = "application/pdf"
            /\ \E pre, sup, adv \in {NoData, "pre-json", "sup-json", "adv-json"} :
                 job.pdfReportData =
                   ToBase64(RenderDocument(job.data.orgName, pre, sup, adv))
            /\ emailJobs[e].data.reportId = job.data.reportId
            /\ emailJobs[e].data.toEmail = job.data.userEmail
            /\ emailJobs[e].state # "delayed" =>
                 emailJobs[e].processedOn >= emailJobs[e].timestamp + 300000)
  /\ [][\A j \in 1..MaxPdvJobs :
          (At(j, "recordId") /\ pdvJobs'[j].pc \in {"emit", "create"}) =>
            /\ pdvJobs[j].emailJobId \in DeliveriesOf(j)
            /\ report'[pdvJobs[j].data.reportId].bullMQJobId = pdvJobs[j].emailJobId]_vars

\* a run has scheduled its one Delivery job, recorded its id, and the email
\* worker has executed the job once the delay had elapsed
C10_Witness ==
  \E j \in JobIds, e \in EmailIds :
    /\ pdvJobs[j].state = "completed" /\ pdvJobs[j].hasEmailData
    /\ DeliveriesOf(j) = {e}
    /\ report[pdvJobs[j].data.reportId].bullMQJobId = e
    /\ emailJobs[e].state = "completed"
    /\ emailJobs[e].processedOn >= emailJobs[e].timestamp + 300000

----------------------------------------------------------------------------
(* Properties of the notification bus *)

\* a send made by a listener, not by the handler of GET /notification/
FromListener(m) == m.title \notin {"Connected", "error"}

\* the topic key a connection asked for in its headers
KeyOfConn(c) == TopicKey(conns[c].platformId, conns[c].organisationId)

\* C7: an emit invokes every listener registered under exactly the emitted
\* key, and no listener of a connection that subscribed under another key.
C7_PublishReachesExactlyItsKey ==
  /\ lastEmit.invoked = {c \in lastEmit.registered : KeyOfConn(c) = lastEmit.key}
  /\ \A c \in lastEmit.invoked :
       \E m \in sent : m.conn = c /\ m.key = lastEmit.key
  /\ \A m \in sent : FromListener(m) => KeyOfConn(m.conn) = m.key

\* two connections share p1_o1 and got the event, a third on p1_o2 did not
C7_Witness ==
  /\ lastEmit.key = "notificationEvent_p1_o1"
  /\ Cardinality(lastEmit.invoked) = 2
  /\ \E c \in lastEmit.registered :
       /\ KeyOfConn(c) = "notificationEvent_p1_o2"
       /\ c \notin lastEmit.invoked
       /\ ~\E m \in sent : m.conn = c /\ FromListener(m)

\* C8 (as claimed): the registered listeners are those of the open
\* connections, and nothing is sent to a closed connection
C8_ListenersAreTheOpenConnections ==
  /\ {listeners[i].conn : i \in DOMAIN listeners} =
       {c \in DOMAIN conns : conns[c].open /\ conns[c].subscribed}
  /\ \A m \in sent : m.open

\* C16: whatever report jobs and Delivery jobs have run, the deliveryStatus of
\* a record is exactly one of pending (no execution has written a delivery
\* outcome), DELIVERED (with the message id) or DELIVERY_FAILED (with the error
\* text); an execution that records an error leaves the status DELIVERY_FAILED,
\* one that records a message id leaves it DELIVERED.
C16_DeliveryStatusIsOneOutcome ==
  /\ [](\A r \in ReportIds :
         /\ report[r].deliveryStatus \in {"PENDING", "DELIVERED", "DELIVERY_FAILED"}
         /\ report[r].deliveryStatus = "PENDING" =>
              (report[r].emailId = NoData /\ report[r].emailDeliveryError = NoData)
         /\ report[r].deliveryStatus = "DELIVERED" => report[r].emailId # NoData
         /\ report[r].deliveryStatus = "DELIVERY_FAILED" =>
              report[r].emailDeliveryError # NoData)
  /\ [][\A r \in ReportIds :
          /\ report'[r].emailDeliveryError # report[r].emailDeliveryError =>
               report'[r].deliveryStatus = "DELIVERY_FAILED"
          /\ report'[r].emailId # report[r].emailId =>
               report'[r].deliveryStatus = "DELIVERED"]_vars

\* the mail was accepted and recorded as delivered, a later step of the same
\* execution failed, and the record now reads DELIVERY_FAILED
C16_Witness ==
  \E r \in ReportIds :
    /\ report[r].deliveryStatus = "DELIVERY_FAILED"
    /\ report[r].emailId # NoData
    /\ report[r].emailDeliveryError = NotifyError

\* C17: the bus keeps no backlog. Registering a listener delivers nothing, and
\* an emit delivers only to the listeners registered when it is called; so an
\* event published before a listener subscribed never reaches that listener.
C17_NoBacklog ==
  [][/\ listeners' # listeners => sent' = sent
     /\ \A m \in sent' \ sent :
          \/ m.title = "Connected" /\ m.conn \notin DOMAIN conns
          \/ m.title = "error" /\ listeners' = listeners /\ emitted' = emitted
          \/ /\ m.conn \in ListenersOf(m.key)
             /\ lastEmit'.key = m.key /\ m.conn \in lastEmit'.invoked
             /\ \E x \in emitted' : x.key = m.key /\ x.ev.title = m.title]_vars

\* an event was published under a key, a connection then subscribed to that
\* key, and the connection has been sent nothing but its greeting
C17_Witness ==
  \E c \in DOMAIN conns :
    /\ conns[c].subscribed
    /\ \E m \in emitted : m.key = KeyOfConn(c)
    /\ \A x \in sent : x.conn = c => x.title = "Connected"

\* C18: a job whose handler threw is in state failed, and stays there: it was
\* executed once, and no handler invocation starts for it after it has failed.
C18_FailedJobsAreNotRetried ==
  /\ [](/\ \A j \in JobIds :
            /\ pdvJobs[j].failedReason # NoData =>
                 (pdvJobs[j].state = "failed" /\ pdvJobs[j].attemptsStarted = 1)
            /\ pdvJobs[j].state = "failed" => pdvJobs[j].failedReason # NoData
        /\ \A e \in EmailIds :
            /\ emailJobs[e].failedReason # NoData =>
                 (emailJobs[e].state = "failed" /\ emailJobs[e].attemptsStarted = 1)
            /\ emailJobs[e].state = "failed" => emailJobs[e].failedReason # NoData)
  /\ [][/\ \A j \in JobIds :
            pdvJobs[j].state = "failed" =>
              (pdvJobs'[j].state = "failed" /\ pdvJobs'[j].pc = "done"
                 /\ pdvJobs'[j].attemptsStarted = pdvJobs[j].attemptsStarted)
        /\ \A e \in EmailIds :
            emailJobs[e].state = "failed" =>
              (emailJobs'[e].state = "failed" /\ emailJobs'[e].pc = "done"
                 /\ emailJobs'[e].attemptsStarted = emailJobs[e].attemptsStarted)]_vars

\* a report job failed after it had scheduled its Delivery job, the Delivery
\* job was executed after its delay and failed too
C18_Witness ==
  \E j \in JobIds, e \in EmailIds :
    /\ pdvJobs[j].state = "failed" /\ pdvJobs[j].failedReason = NotifyError
    /\ emailJobs[e].state = "failed" /\ emailJobs[e].failedReason = MailError
    /\ emailJobs[e].attemptsStarted = 1 /\ pdvJobs[j].attemptsStarted = 1

----------------------------------------------------------------------------
(* Properties of the text handling of the pipeline *)

\* JSON.parse throws on what extractJSON makes of the response
Unparseable(raw) == ParseJSON(ExtractJSON(raw)) = "SyntaxError"

\* C19: when the summary response cannot be parsed as JSON the pre-analysis
\* stage does not fail: the summary is {summary: "", competitiveAdvantages: [],
\* dataProfileTable: []}, the stage returns its data, and the run goes on to
\* the persist stage.
C19_MalformedSummaryFallsBack ==
  Unparseable(responses.summaryRaw) =>
    /\ ~GeneratePrePDVData(responses.summaryRaw).threw
    /\ GeneratePrePDVData(responses.summaryRaw).summary =
         [kind |-> "object",
          has |-> {"summary", "competitiveAdvantages", "dataProfileTable"},
          summary |-> "", competitiveAdvantages |-> << >>,
          dataProfileTable |-> << >>]
    /\ \A j \in JobIds :
         /\ "pre" \in Attempted(j) =>
              ("pre" \in pdvJobs[j].succeeded /\ pdvJobs[j].preADVReportData # "")
         /\ pdvJobs[j].pc \notin {"idle", "pre", "sup", "render", "persist"} =>
              "persist" \in Attempted(j)

\* a summary response with an unbalanced brace was answered, the pre-analysis
\* data was returned all the same and the run has persisted it
C19_Witness ==
  /\ Unparseable(responses.summaryRaw)
  /\ Len(responses.summaryRaw) = MaxTextLen
  /\ "{" \in {responses.summaryRaw[i] : i \in DOMAIN responses.summaryRaw}
  /\ \E j \in JobIds :
       /\ "pre" \in pdvJobs[j].succeeded
       /\ "persist" \in pdvJobs[j].succeeded
       /\ report[pdvJobs[j].data.reportId].preADVData # NoData

\* the fallback of a percentage: the pre-analysis metric, or 50 when absent
FallbackOf(metric) == IF metric.has THEN metric.v ELSE 50

\* the percentage the valuation uses for a submitted one, given the fallback
Sanitized(x, used, fallback) ==
  /\ (x.has /\ x.v = 0) => used = fallback
  /\ (x.has /\ x.v = 100) => used = fallback
  /\ (x.has /\ 0 < x.v /\ x.v < 100) => used = x.v

\* C20: the valuation stage uses the fallback for a submitted reliance or
\* attributable percentage of 0 or of 100 and the submitted percentage x
\* itself for 0 < x < 100; the fallback is the pre-analysis metric of the
\* same name, or 50 when the pre-analysis has none.
C20_SanitizeKeepsRealisticPercents ==
  calc.pc = "sanitized" =>
    /\ Sanitized(calc.extractedData.dataReliancePercent, calc.dataReliancePercent,
                 FallbackOf(calc.preADVMetrics.dataReliancePercent))
    /\ Sanitized(calc.extractedData.dataAttributablePercent,
                 calc.dataAttributablePercent,
                 FallbackOf(calc.preADVMetrics.dataAttributePercent))

\* reliance 100 with no pre-analysis metric became 50, attributable 0 became
\* the metric 30
C20_Witness ==
  /\ calc.pc = "sanitized"
  /\ calc.extractedData.dataReliancePercent = Num(100)
  /\ ~calc.preADVMetrics.dataReliancePercent.has
  /\ calc.dataReliancePercent = 50
  /\ calc.extractedData.dataAttributablePercent = Num(0)
  /\ calc.preADVMetrics.dataAttributePercent = Num(30)
  /\ calc.dataAttributablePercent = 30

----------------------------------------------------------------------------
(* Properties of the mailing-job routes *)

Pending(state) == state \in {"waiting", "delayed"}

\* C13 (as claimed): update-mailing-job replaces the payload of a job only
\* while the job is waiting or delayed; for an id that names no job it replies
\* 'Job not found' and changes no job
C13_UpdateOnlyPendingJobs ==
  /\ [](\A q \in DOMAIN updates :
         /\ updates[q].applied # "none" => Pending(updates[q].applied)
         /\ (updates[q].pc = "done" /\ updates[q].jobId \notin DOMAIN emailJobs
               /\ updates[q].reply # "error") =>
              (updates[q].reply = "Job not found" /\ updates[q].applied = "none"))
  /\ [][\A e \in DOMAIN emailJobs :
          emailJobs'[e].data # emailJobs[e].data => Pending(emailJobs[e].state)]_vars

----------------------------------------------------------------------------
(* Properties of the worker pools *)

\* C14: a job is executed by at most one handler invocation at a time: an
\* invocation starts only for a job that is not being executed, and at most 2
\* handler invocations of the report pipeline are active at the same time.
C14_LeasesAreExclusive ==
  /\ \A j \in JobIds :
       /\ pdvJobs[j].attemptsStarted <= 1
       /\ pdvJobs[j].state = "active" => pdvJobs[j].attemptsStarted = 1
       /\ pdvJobs[j].state = "waiting" => pdvJobs[j].attemptsStarted = 0
  /\ \A e \in EmailIds :
       /\ emailJobs[e].attemptsStarted <= 1
       /\ emailJobs[e].state = "active" => emailJobs[e].attemptsStarted = 1
  /\ Cardinality(ActivePdv) <= 2

\* both slots of the report worker are taken and a third job has to wait
C14_Witness ==
  /\ Cardinality(ActivePdv) = 2
  /\ \E j \in JobIds : pdvJobs[j].state = "waiting"

----------------------------------------------------------------------------
(* Properties of the valuation arithmetic *)

\* the inputs of the worked example
ExampleInputs(c) ==
  /\ c.extractedData.yearlyValuations = <<100, 200, 300>>
  /\ c.dataReliancePercent = 80
  /\ c.dataScarcityPercent = 60
  /\ c.dataOwnershipPercent = 60
  /\ c.dataUniquenessPercent = 60

\* whether a <= b, for natural numbers of any size
RECURSIVE BigLeq(_, _)
BigLeq(a, b) ==
  IF Len(a) # Len(b) THEN Len(a) < Len(b)
  ELSE IF a = << >> THEN TRUE
  ELSE IF a[Len(a)] # b[Len(b)] THEN a[Len(a)] < b[Len(b)]
  ELSE BigLeq(SubSeq(a, 1, Len(a) - 1), SubSeq(b, 1, Len(b) - 1))

BigDist(a, b) == IF BigLeq(a, b) THEN BigSub(b, a) ELSE BigSub(a, b)

\* the double x is y * n / d up to the rounding of a few operations: the
\* two differ by no more than 2^-50 of the value
IsProduct(x, y, n, d) ==
  LET e == IF x.e < y.e THEN x.e ELSE y.e
      X == BigTrim(BigMulSmall(BigShl(x.m, x.e - e), d, 0))
      Y == BigTrim(BigMulSmall(BigShl(y.m, y.e - e), n, 0))
  IN BigLeq(BigShl(BigDist(X, Y), 50), Y)

\* the integer k is the nearest to the double x, a half going up
IsNearestInteger(k, x) ==
  LET K == IF x.e < 0 THEN 0 - x.e ELSE 0
      twiceK == BigShl(BigFromInt(k), K + 1)
      twiceX == BigShl(x.m, x.e + K + 1)
      one == BigShl(<<1>>, K)
  IN /\ BigLeq(twiceK, BigAdd(twiceX, one, 0))
     /\ ~BigLeq(BigAdd(twiceK, one, 0), twiceX)

\* the product of small natural numbers, of any size
RECURSIVE BigProduct(_)
BigProduct(factors) ==
  IF factors = << >> THEN <<1>>
  ELSE BigTrim(BigMulSmall(BigProduct(Tail(factors)), Head(factors), 0))

\* no integer is nearer than k to the exact quotient of the two products:
\* 2 * |k * d - n| <= d
IsNearestToQuotient(k, numerators, denominators) ==
  LET n == BigProduct(numerators)
      d == BigProduct(denominators)
  IN BigLeq(BigTrim(BigMulSmall(BigDist(BigMul(BigFromInt(k), d), n), 2, 0)), d)

\* C21: the valuation is the sum of the yearly valuations, times
\* reliancePercent/100, times (1 - 12.5/100), times the average of scarcity,
\* ownership and uniqueness over 100 (the upper bound), times (1 - 30/100) (the
\* lower bound), each product as a double, both bounds rounded to the nearest
\* integer, of the double and of the exact product alike (of the two nearest
\* to an exact half, either); [100,200,300] at 80% reliance and 60/60/60
\* gives 600, 480, 420, 252 and 176.
C21_ValuationArithmetic ==
  calc.pc = "returned" =>
    LET quality == calc.dataScarcityPercent + calc.dataOwnershipPercent
                     + calc.dataUniquenessPercent IN
    /\ calc.totalValuation = SumOf(calc.extractedData.yearlyValuations)
    /\ IsProduct(calc.dataRelianceValuation, DFromInt(calc.totalValuation),
                 calc.dataReliancePercent, 100)
    /\ IsProduct(calc.afterDecay, calc.dataRelianceValuation, 875, 1000)
    /\ IsProduct(calc.upperADV, calc.afterDecay, quality, 300)
    /\ IsProduct(calc.lowerADV, calc.upperADV, 70, 100)
    /\ IsNearestInteger(calc.roundedUpperADV, calc.upperADV)
    /\ IsNearestInteger(calc.roundedLowerADV, calc.lowerADV)
    /\ IsNearestToQuotient(calc.roundedUpperADV,
          <<calc.totalValuation, calc.dataReliancePercent, 875, quality>>,
          <<100, 1000, 300>>)
    /\ IsNearestToQuotient(calc.roundedLowerADV,
          <<calc.totalValuation, calc.dataReliancePercent, 875, quality, 70>>,
          <<100, 1000, 300, 100>>)
    /\ ExampleInputs(calc) =>
         /\ calc.totalValuation = 600
         /\ calc.dataRelianceValuation = DFromInt(480)
         /\ calc.afterDecay = DFromInt(420)
         /\ calc.roundedUpperADV = 252
         /\ calc.roundedLowerADV = 176

\* the worked example has been computed
C21_Witness ==
  /\ calc.pc = "returned"
  /\ ExampleInputs(calc)
  /\ calc.roundedLowerADV = 176

----------------------------------------------------------------------------
(* Properties of the valuation stage on its extraction response *)

\* the extraction response gives nothing to compute a valuation from: it does
\* not parse, or it parses to null or to an object without its members
Unusable(raw) == ParseJSON(ExtractJSON(raw)) # "object"

\* C22: when the extraction response cannot be parsed, or parses to unusable
\* data, the run has no valuation, not a zero one: the renderer is called
\* with valuation null, the persist write stores null in ADVdata and in both
\* range fields, and the run goes on through render and persist to the
\* scheduling of the delivery.
C22_UnparseableExtractionSkipsValuation ==
  /\ [](Unusable(responses.extractRaw) =>
         \A j \in JobIds :
           LET job == pdvJobs[j] IN
           /\ job.advReportData = "" /\ job.lowerADVRange = "" /\ job.upperADVRange = ""
           /\ "adv" \in Attempted(j) => job.pc # "adv"
           /\ "render" \in Attempted(j) =>
                /\ "adv" \in Attempted(j)
                /\ job.renderArgs # << >> /\ job.renderArgs[3] = NoData
           /\ job.pc \notin {"idle", "pre", "sup", "adv", "render", "persist"} =>
                job.trace = ExpectedStages(TRUE)
           /\ ("persist" \in job.succeeded
                 /\ ShouldSchedule(job.pdfReportData, job.data.userEmail)) =>
                \/ job.pc = "enqueue"
                \/ DeliveriesOf(j) # {}
                \/ (job.state = "failed" /\ job.failedReason = QueueError))
  /\ [][(Unusable(responses.extractRaw) /\ At(1, "persist")
           /\ pdvJobs'[1].success = "true") =>
          LET row == report'[pdvJobs[1].data.reportId] IN
          /\ row.ADVdata = NoData
          /\ row.lowerADVRange = NoData /\ row.upperADVRange = NoData
          /\ row.pdfReportData = pdvJobs[1].pdfReportData]_vars

\* an extraction response that is prose was answered; the run rendered and
\* persisted without a valuation and its delivery is enqueued
C22_Witness ==
  /\ ParseJSON(ExtractJSON(responses.extractRaw)) = "SyntaxError"
  /\ Len(responses.extractRaw) = MaxTextLen
  /\ \E j \in JobIds :
       /\ pdvJobs[j].trace = ExpectedStages(TRUE)
       /\ pdvJobs[j].renderArgs[3] = NoData
       /\ pdvJobs[j].pdfReportData # NoData
       /\ report[pdvJobs[j].data.reportId].ADVdata = NoData
       /\ report[pdvJobs[j].data.reportId].pdfReportData # NoData
       /\ DeliveriesOf(j) # {}

----------------------------------------------------------------------------
(* Properties of the supplementary stage on its comparison response *)

\* report job j ran its supplementary stage and has rendered: the stage's data
\* went to the renderer as given by what
RenderedWith(j, what) ==
  ("render" \in Attempted(j)) => pdvJobs[j].renderArgs[2] = what

\* C23 (as claimed): the supplementary stage runs whatever the pre-analysis
\* did, and whenever it fails, by a call that throws or by an unparseable
\* response, render and persist are given an empty comparison object
C23_SupplementaryFailureGivesEmptyObject ==
  \A j \in JobIds :
    LET job == pdvJobs[j] IN
    /\ job.pc \notin {"idle", "pre", "sup"} => "sup" \in Attempted(j)
    /\ ("sup" \in Attempted(j)
          /\ ("sup" \notin job.succeeded \/ Unparseable(responses.comparisonRaw))) =>
         /\ RenderedWith(j, "{}")
         /\ "persist" \in job.succeeded => report[job.data.reportId].supplementADVData = "{}"

\* C23 (amended): the supplementary stage runs whatever the pre-analysis did;
\* when its response is unparseable, render and persist are given the empty
\* comparison object {}; when its text-generation call throws, they are given
\* no supplementary data (null).
C23_SupplementaryFailureIsEmptyOrAbsent ==
  /\ Unparseable(responses.comparisonRaw) =>
       /\ ~GenerateSupplementaryData(responses.comparisonRaw).threw
       /\ GenerateSupplementaryData(responses.comparisonRaw).returned = "{}"
  /\ \A j \in JobIds :
    LET job == pdvJobs[j] IN
    /\ job.pc \notin {"idle", "pre", "sup"} => "sup" \in Attempted(j)
    /\ ("sup" \in job.succeeded /\ Unparseable(responses.comparisonRaw)) =>
         /\ job.supplementaryADVReportData = "{}"
         /\ RenderedWith(j, "{}")
         /\ "persist" \in job.succeeded => report[job.data.reportId].supplementADVData = "{}"
    /\ ("sup" \in Attempted(j) /\ "sup" \notin job.succeeded) =>
         /\ job.supplementaryADVReportData = ""
         /\ RenderedWith(j, NoData)
         /\ "persist" \in job.succeeded =>
              report[job.data.reportId].supplementADVData = NoData

\* after a failed pre-analysis the comparison response was prose: the run has
\* rendered and persisted the empty comparison object
C23_Witness ==
  \E j \in JobIds :
    /\ Unparseable(responses.comparisonRaw)
    /\ Len(responses.comparisonRaw) = MaxTextLen
    /\ "pre" \notin pdvJobs[j].succeeded
    /\ "sup" \in pdvJobs[j].succeeded
    /\ pdvJobs[j].renderArgs = <<NoData, "{}", NoData>>
    /\ "persist" \in pdvJobs[j].succeeded
    /\ report[pdvJobs[j].data.reportId].supplementADVData = "{}"

----------------------------------------------------------------------------
(* Properties of the record while a run is in progress *)

\* C24 (as claimed): once a stage of a run has finished with a result, the
\* report record holds that result, so that a handler that stops after stage
\* k leaves the results of stages 1..k on record
C24_StageResultsAreOnRecord ==
  \A j \in JobIds :
    LET job == pdvJobs[j]
        row == report[job.data.reportId] IN
    /\ "pre" \in job.succeeded => row.preADVData = job.preADVReportData
    /\ "sup" \in job.succeeded => row.supplementADVData = job.supplementaryADVReportData
    /\ "adv" \in job.succeeded =>
         /\ row.ADVdata = job.advReportData
         /\ row.lowerADVRange = job.lowerADVRange
         /\ row.upperADVRange = job.upperADVRange
    /\ "render" \in job.succeeded => row.pdfReportData = job.pdfReportData

----------------------------------------------------------------------------
(* Properties of extractPercentageFromText *)

\* t[i..e] is an integer or a decimal: digits, or digits, a point and digits
IsNumeral(t, i, e) ==
  /\ i <= e /\ t[i] \in Digits /\ t[e] \in Digits
  /\ \A k \in i..e : t[k] \in Digits \cup {"."}
  /\ Cardinality({k \in i..e : t[k] = "."}) <= 1

\* a '%' or 'percent' follows position e, after white space at most
PercentFollows(t, e) ==
  \E k \in (e + 1)..Len(t) :
    /\ t[k] \in {"%", "p"}
    /\ \A m \in (e + 1)..(k - 1) : t[m] = " "

\* the numbers of the text that precede a '%' or 'percent', as <<first, last>>
PercentNumbers(t) ==
  {c \in (DOMAIN t) \X (DOMAIN t) : IsNumeral(t, c[1], c[2]) /\ PercentFollows(t, c[2])}

\* the one of them that starts first
FirstPercentNumber(t) ==
  CHOOSE c \in PercentNumbers(t) : \A d \in PercentNumbers(t) : c[1] <= d[1]

\* the value of the numeral t[i..e]
NumeralValue(t, i, e) ==
  LET points == {k \in i..e : t[k] = "."} IN
  IF points = {} THEN Whole(DigitsValue(t, i, e))
  ELSE LET dot == Least(points) IN
       Rat(DigitsValue(t, i, dot - 1) * Pow10(e - dot) + DigitsValue(t, dot + 1, e),
           Pow10(e - dot))

\* C25 (as claimed): the result is the first number before a '%' or 'percent',
\* clamped to [0,100] (above 100 it is 100), and there is no result only when
\* the text has no such number
C25_PercentageIsClamped ==
  helper.pc = "returned" =>
    LET t == helper.arg IN
    IF PercentNumbers(t) = {} THEN ~helper.result.has
    ELSE LET c == FirstPercentNumber(t)
             value == NumeralValue(t, c[1], c[2]) IN
         /\ helper.result.has
         /\ helper.result.v = IF value.n > 100 * value.d THEN Whole(100) ELSE value

\* C25 (amended): the result is the first integer or decimal number that is
\* followed, after white space at most, by '%' or 'percent', when that number
\* is at most 100; there is no result when that first number is above 100 or
\* when the text has no such number.
C25_PercentageIsFirstInRange ==
  helper.pc = "returned" =>
    LET t == helper.arg IN
    IF PercentNumbers(t) = {} THEN ~helper.result.has
    ELSE LET c == FirstPercentNumber(t)
             value == NumeralValue(t, c[1], c[2]) IN
         IF value.n > 100 * value.d THEN ~helper.result.has
         ELSE helper.result.has /\ helper.result.v = value

\* the answer "150%" and the like: a number above 100 was read and refused
C25_Witness ==
  /\ helper.pc = "returned"
  /\ PercentNumbers(helper.arg) # {}
  /\ LET c == FirstPercentNumber(helper.arg) IN
     NumeralValue(helper.arg, c[1], c[2]).n > 100 * NumeralValue(helper.arg, c[1], c[2]).d
  /\ ~helper.result.has

----------------------------------------------------------------------------
(* Properties of callClaude *)

\* the number of tokens in the text blocks among the first k blocks
RECURSIVE TextLenUpTo(_, _)
TextLenUpTo(content, k) ==
  IF k = 0 THEN 0
  ELSE TextLenUpTo(content, k - 1)
         + (IF content[k].type = "text" THEN Len(content[k].text) ELSE 0)

\* text is made of the text segments of content, each in its place and in
\* order, and of nothing else
IsConcatenation(text, content) ==
  /\ Len(text) = TextLenUpTo(content, Len(content))
  /\ \A k \in DOMAIN content :
       content[k].type = "text" =>
         SubSeq(text, TextLenUpTo(content, k - 1) + 1, TextLenUpTo(content, k))
           = content[k].text

\* the call asks for its response as it came
Unsanitized(options) == options.skipSanitization \/ options.jsonMode

RECURSIVE IsSubsequence(_, _)
IsSubsequence(t, u) ==
  IF t = << >> THEN TRUE
  ELSE IF u = << >> THEN FALSE
  ELSE IF Head(t) = Head(u) THEN IsSubsequence(Tail(t), Tail(u))
  ELSE IsSubsequence(t, Tail(u))

\* a phrase of meta-commentary of t with a period somewhere after it
MetaBeforePeriod(t) ==
  \E i, p \in DOMAIN t : i < p /\ t[i] \in MetaPhrases /\ t[p] = "."

\* the tokens of t that are not white space, in order
Solid(t) == SelectSeq(t, LAMBDA c : c \notin WhiteSpace)

\* what of t comes before its first phrase of meta-commentary
BeforeMeta(t) ==
  LET at == {i \in DOMAIN t : t[i] \in MetaPhrases} IN
  IF at = {} THEN t ELSE SubSeq(t, 1, Least(at) - 1)

\* what of t comes after its last period
AfterPeriods(t) ==
  LET at == {p \in DOMAIN t : t[p] = "."} IN
  IF at = {} THEN t ELSE SubSeq(t, Greatest(at) + 1, Len(t))

\* t closes u
IsSuffix(t, u) == Len(t) <= Len(u) /\ SubSeq(u, Len(u) - Len(t) + 1, Len(u)) = t

----------------------------------------------------------------------------
(* Properties of extractJSON *)

\* the text is JSON as it stands
CleanJSON(t) == ParseJSON(t) # "SyntaxError"

\* the text is a JSON object as it stands
CleanObject(t) == ParseJSON(t) \in {"object", "emptyObject"}

\* the text holds a fenced code block with something in it: <<open, close>>
\* are its fences, the first two of the text
FencedBlocks(t) ==
  {f \in (DOMAIN t) \X (DOMAIN t) :
     /\ f[1] < f[2] /\ t[f[1]] = "F" /\ t[f[2]] = "F"
     /\ \A k \in 1..(f[2] - 1) : t[k] = "F" => k = f[1]
     /\ \E k \in (f[1] + 1)..(f[2] - 1) : t[k] # " "}

\* the number of c among t[i..j]
Count(t, i, j, c) == Cardinality({k \in i..j : t[k] = c})

\* the spans <<i, j>> that open with the first "{" of the text and end with
\* the "}" that closes it
FirstTopLevelSpans(t) ==
  {b \in (DOMAIN t) \X (DOMAIN t) :
     /\ b[1] < b[2] /\ t[b[1]] = "{" /\ t[b[2]] = "}"
     /\ \A k \in 1..(b[1] - 1) : t[k] # "{"
     /\ Count(t, b[1], b[2], "{") = Count(t, b[1], b[2], "}")
     /\ \A k \in b[1]..(b[2] - 1) : Count(t, b[1], k, "{") > Count(t, b[1], k, "}")}

\* the spans <<i, j>> from the first "{" of the text to its last "}"
OuterSpans(t) ==
  {b \in (DOMAIN t) \X (DOMAIN t) :
     /\ b[1] < b[2] /\ t[b[1]] = "{" /\ t[b[2]] = "}"
     /\ \A k \in DOMAIN t : t[k] = "{" => k >= b[1]
     /\ \A k \in DOMAIN t : t[k] = "}" => k <= b[2]}

\* C27 (as claimed): extractJSON of clean JSON is that text trimmed, and a
\* second extraction changes nothing; of a wrapped response it is the content
\* of the fenced code block, else the first top-level {...} span
C27_ExtractJSONFirstTopLevelSpan ==
  helper.pc = "returnedAgain" =>
    LET t == helper.arg IN
    /\ CleanJSON(t) => (helper.result = Trim(t) /\ helper.again = helper.result)
    /\ \A f \in FencedBlocks(t) : helper.result = Trim(SubSeq(t, f[1] + 1, f[2] - 1))
    /\ FencedBlocks(t) = {} =>
         \A b \in FirstTopLevelSpans(t) : helper.result = SubSeq(t, b[1], b[2])

\* C27 (amended): extractJSON of a clean JSON object is that text trimmed.
\* Other clean JSON is not trimmed: it is returned as it is when no "{" of it
\* comes before a "}", and is otherwise cut to the span from its first "{" to
\* its last "}", so that an array holding objects loses its brackets.  In
\* both cases a second extraction changes nothing.  Of a wrapped response it
\* is the trimmed content of the first fenced code block when there is
\* something in it, else the span from the first "{" to the last "}", else
\* the text as it is.
C27_ExtractJSONOuterSpan ==
  helper.pc = "returnedAgain" =>
    LET t == helper.arg IN
    /\ CleanObject(t) => (helper.result = Trim(t) /\ helper.again = helper.result)
    /\ (CleanJSON(t) /\ ~CleanObject(t)) =>
         /\ OuterSpans(t) = {} => helper.result = t
         /\ \A b \in OuterSpans(t) : helper.result = SubSeq(t, b[1], b[2])
         /\ helper.again = helper.result
    /\ \A f \in FencedBlocks(t) : helper.result = Trim(SubSeq(t, f[1] + 1, f[2] - 1))
    /\ FencedBlocks(t) = {} =>
         /\ \A b \in OuterSpans(t) : helper.result = SubSeq(t, b[1], b[2])
         /\ OuterSpans(t) = {} => helper.result = t

\* a clean array holding an object: the object was returned, not the array
C27_Witness ==
  /\ helper.pc = "returnedAgain"
  /\ helper.arg = <<"[", "{", "}", "]">>
  /\ CleanJSON(helper.arg) /\ ~CleanObject(helper.arg)
  /\ helper.result = <<"{", "}">>
  /\ helper.again = <<"{", "}">>

----------------------------------------------------------------------------
(* Properties of the order of the stages *)

\* what Step 1 left in preADVReportData: its result, or '' when it threw
PreResult(j) == IF "pre" \in pdvJobs[j].succeeded THEN "pre-json" ELSE ""

\* C28: the stages of a report job run in the order pre-analysis,
\* supplementary, valuation (if enabled), render, persist, schedule delivery,
\* each after the one before it has finished, well or not; the supplementary
\* and valuation stages are given what the finished pre-analysis left.
C28_StagesInOrderSeededByPreAnalysis ==
  \A j \in JobIds :
    LET job == pdvJobs[j]
        exp == ExpectedStages(job.data.enableADV) IN
    /\ IsPrefix(job.trace, exp)
    /\ job.pc \in {"pre", "sup", "adv", "render", "persist"} =>
         (Len(job.trace) < Len(exp) /\ exp[Len(job.trace) + 1] = job.pc)
    /\ (job.pc \in {"enqueue", "recordId"} \/ job.emailJobId # 0) =>
         (job.trace = exp /\ "persist" \in job.succeeded)
    /\ job.supSeed = IF "sup" \in Attempted(j) THEN PreResult(j) ELSE "unseeded"
    /\ job.advSeed = IF "adv" \in Attempted(j) THEN PreResult(j) ELSE "unseeded"
    /\ job.advSeed # "unseeded" => job.data.enableADV

\* a run with every stage done and the delivery scheduled, its supplementary
\* and valuation stages seeded with the pre-analysis
C28_Witness ==
  \E j \in JobIds :
    /\ pdvJobs[j].trace = <<"pre", "sup", "adv", "render", "persist">>
    /\ pdvJobs[j].emailJobId # 0
    /\ pdvJobs[j].preADVReportData = "pre-json"
    /\ pdvJobs[j].supSeed = "pre-json"
    /\ pdvJobs[j].advSeed = "pre-json"

----------------------------------------------------------------------------
(* Properties of emit as seen by its caller *)

\* this step is a call of emit
EmitStep == lastEmit' # lastEmit \/ emitted' # emitted

\* C29: emit is synchronous for its caller: when it returns, every listener
\* registered under the key at the call has been invoked, which is to say
\* has made its send; no listener is registered and no connection opened
\* within the call, and a listener registered after the call is not invoked
\* for it.
C29_PublishIsSynchronous ==
  /\ [][/\ EmitStep =>
            /\ listeners' = listeners /\ DOMAIN conns' = DOMAIN conns
            /\ lastEmit'.invoked = ListenersOf(lastEmit'.key)
            /\ \A c \in ListenersOf(lastEmit'.key) :
                 [conn |-> c, key |-> lastEmit'.key, title |-> "relayed",
                  open |-> conns[c].open] \in sent'
         /\ \A m \in sent' \ sent :
              FromListener(m) =>
                (EmitStep /\ m.key = lastEmit'.key /\ m.conn \in ListenersOf(m.key))]_vars
  /\ [](\A c \in DOMAIN conns :
          (conns[c].subscribed /\ c \notin lastEmit.registered) =>
            c \notin lastEmit.invoked)

\* an emit invoked the listener of its key; a connection that registered
\* under the same key after the call has been sent nothing for it
C29_Witness ==
  /\ lastEmit.invoked # {}
  /\ \A c \in lastEmit.invoked : \E m \in sent : m.conn = c /\ m.key = lastEmit.key
  /\ \E d \in DOMAIN conns :
       /\ conns[d].subscribed
       /\ KeyOfConn(d) = lastEmit.key
       /\ d \notin lastEmit.registered
       /\ \A x \in sent : x.conn = d => x.title = "Connected"

----------------------------------------------------------------------------
(* Properties of the event name as a tenant boundary *)

\* the tenant pair an event was published for
PairOfEvent(ev) == [p |-> Id(ev.platformId), o |-> Id(ev.organizationId)]

\* C30: two different (platformId, organizationId) pairs never give the same
\* event name: a connection is only sent events published for the very pair
\* it subscribed with, also when an id contains "_" or is missing.
C30_DistinctPairsNeverShareAKey ==
  \A m \in sent :
    FromListener(m) =>
      \A x \in emitted :
        x.key = m.key => PairOfEvent(x.ev) = conns[m.conn].headers

----------------------------------------------------------------------------
(* Properties of the delivery handler after the transport accepted the mail *)

\* the mail transport accepted the message of Delivery job e
MailAccepted(e) == emailJobs[e].messageId # NoData

\* C31: the delivery handler marks a report DELIVERY_FAILED only when the
\* transport call failed: once the transport has accepted the message, the
\* execution never enters the catch block, and it ends with the report
\* DELIVERED and the job not failed, whatever the record update, the
\* notification write and the emit do.
C31_FailedOnlyIfTransportFailed ==
  \A e \in EmailIds :
    MailAccepted(e) =>
      /\ emailJobs[e].pc # "markFailed"
      /\ EFinished(e) =>
           /\ emailJobs[e].state # "failed"
           /\ KnownReport(emailJobs[e].local.reportId) =>
                report[emailJobs[e].local.reportId].deliveryStatus = "DELIVERED"

----------------------------------------------------------------------------
(* Properties of the payload of an updated mailing job *)

\* C32: update-mailing-job leaves the reportId and the subdomain of a
\* scheduled job as they were enqueued: no step changes them, so the execution
\* of an updated job addresses the report the job was enqueued for.
C32_UpdateKeepsReportId ==
  /\ [][\A e \in DOMAIN emailJobs :
          /\ emailJobs'[e].data.reportId = emailJobs[e].data.reportId
          /\ emailJobs'[e].data.subdomain = emailJobs[e].data.subdomain]_vars
  /\ [](\A q \in DOMAIN updates :
          (updates[q].reply = "ok" /\ emailJobs[updates[q].jobId].state = "active") =>
            emailJobs[updates[q].jobId].local.reportId # Absent)

----------------------------------------------------------------------------
(* Properties of the delivery reference on the report record *)

\* C33: once the report handler has finished, completed or failed, a Delivery
\* job exists for its report exactly when the bullMQJobId of the record holds
\* the id of that job; a report job that ended failed has left no Delivery job.
C33_DeliveryJobIffRecorded ==
  \A j \in JobIds :
    Finished(j) =>
      /\ \A e \in DeliveriesOf(j) : report[pdvJobs[j].data.reportId].bullMQJobId = e
      /\ DeliveriesOf(j) = {} => report[pdvJobs[j].data.reportId].bullMQJobId \notin EmailIds
      /\ pdvJobs[j].state = "failed" => DeliveriesOf(j) = {}

----------------------------------------------------------------------------
(* Properties of the percentages the valuation uses *)

\* C39: the reliance and attributable percentages the valuation arithmetic
\* uses are strictly between 0 and 100, whatever was submitted and whatever
\* the pre-analysis extracted, a metric of 0 or 100 included.
C39_UsedPercentsAreRealistic ==
  calc.pc = "sanitized" =>
    /\ 0 < calc.dataReliancePercent /\ calc.dataReliancePercent < 100
    /\ 0 < calc.dataAttributablePercent /\ calc.dataAttributablePercent < 100

----------------------------------------------------------------------------
(* Properties of the Fireflies webhook *)

HookIds == DOMAIN ff.hooks

\* the requests for a meeting that started a background run
RunsOf(meetingId) ==
  {h \in HookIds : ff.hooks[h].started /\ ff.hooks[h].meetingId = meetingId}

\* C37: for each meetingId at most one meeting record is created and at most
\* one background run is started, however duplicate 'Transcription
\* completed' deliveries interleave; a webhook of any other event type
\* creates no record and starts no run.
C37_OneRecordAndOneRunPerMeeting ==
  /\ \A m \in MeetingIds :
       /\ Cardinality(MeetingRows(m)) <= 1
       /\ Cardinality(RunsOf(m)) <= 1
       /\ Cardinality(RunsOf(m)) = Cardinality(MeetingRows(m))
  /\ \A h \in HookIds :
       ff.hooks[h].eventType # "Transcription completed" =>
         /\ ~ff.hooks[h].started /\ ff.hooks[h].record = 0
         /\ ff.hooks[h].pc = "done"
         /\ ff.hooks[h].reply = "Event type not processed"

\* two deliveries for one meeting both found no record; one created it and
\* started the run, the other's create was rejected
C37_Witness ==
  \E g, h \in HookIds :
    /\ g # h
    /\ ff.hooks[g].meetingId = ff.hooks[h].meetingId
    /\ ff.hooks[g].found = "null" /\ ff.hooks[h].found = "null"
    /\ ff.hooks[g].started
    /\ ~ff.hooks[h].started /\ ff.hooks[h].reply = "error"
    /\ Cardinality(MeetingRows(ff.hooks[g].meetingId)) = 1

Terminal == {"MATCHED", "UNMATCHED", "FAILED"}

\* the moves a meeting record is to make
StatusMoves ==
  {<<"RECEIVED", "PROCESSING">>} \cup {<<"PROCESSING", t>> : t \in Terminal}

\* C38: a meeting record moves only RECEIVED -> PROCESSING -> MATCHED,
\* UNMATCHED or FAILED; once its run has ended the record is in one of the
\* three; it is MATCHED exactly when the organizer email is that of a
\* community lead, else of a company lead, else of a project lead.
C38_StatusMovesForwardToOneOutcome ==
  /\ [][\A i \in DOMAIN ff.meetings :
          ff'.meetings[i].processingStatus # ff.meetings[i].processingStatus =>
            <<ff.meetings[i].processingStatus, ff'.meetings[i].processingStatus>>
              \in StatusMoves]_vars
  /\ [](\A h \in HookIds :
          (ff.hooks[h].started /\ ff.hooks[h].pc = "done") =>
            ff.meetings[ff.hooks[h].record].processingStatus \in Terminal)
  /\ [](\A h \in HookIds :
          LET row == ff.meetings[ff.hooks[h].record]
              organizer == ff.hooks[h].organizer_email IN
          (ff.hooks[h].started /\ row.processingStatus \in {"MATCHED", "UNMATCHED"}) =>
            /\ row.processingStatus = "MATCHED" =>
                 row.lead = (IF organizer \in CommunityLeadEmails THEN "community"
                             ELSE IF organizer \in CompanyLeadEmails THEN "company"
                             ELSE "project")
            /\ row.processingStatus = "MATCHED" <=>
                 organizer \in
                   CommunityLeadEmails \cup CompanyLeadEmails \cup ProjectLeadEmails)

\* C34: once disconnect has completed, and until connect is called again
\* explicitly, no reconnect timer makes a socket or sets the session row
\* back to QR_PENDING or CONNECTED.
C34_DisconnectedStaysDisconnected ==
  [][(wa.quiet /\ wa'.quiet) =>
       /\ Len(wa'.socks) > Len(wa.socks) =>
            wa'.socks[Len(wa'.socks)].origin # "timer"
       /\ (wa'.status # wa.status
           /\ wa'.status \in {"QR_PENDING", "CONNECTED"}) =>
            wa'.statusBy # "timer"]_vars

\* C35: the sockets map holds the most recently created socket until that
\* socket closes or disconnect is called; connect is skipped when the map
\* holds an authenticated socket; the close of an older socket removes
\* neither the newest socket's map entry nor its QR code.
Newest == Len(wa.socks)

NewestIsCurrent == Newest > 0 /\ Live(Newest) /\ ~wa.socks[Newest].cut

MapHoldsNewestSocket == NewestIsCurrent => wa.sockets = Newest

ConnectSkipsWhenAuthenticated ==
  (Len(wa'.calls) > Len(wa.calls) /\ wa.sockets # 0
   /\ wa.socks[wa.sockets].user) =>
    wa'.calls[Len(wa'.calls)].pc = "skipped"

OlderCloseKeepsEntries ==
  \A k \in DOMAIN wa.socks :
    (k < Newest /\ Live(k) /\ wa'.socks[k].state = "closed"
     /\ NewestIsCurrent /\ wa.sockets = Newest) =>
      /\ wa'.sockets = Newest
      /\ wa.qrCodes = Newest => wa'.qrCodes = Newest

C35_MapHoldsNewestSocket ==
  /\ []MapHoldsNewestSocket
  /\ [][ConnectSkipsWhenAuthenticated /\ OlderCloseKeepsEntries]_vars

\* C36: each message of the group, identified by its whatsappMsgId, is
\* stored at most once, whichever handlers receive it.
RowsOf(whatsappMsgId) ==
  {i \in DOMAIN wa.messages : wa.messages[i].whatsappMsgId = whatsappMsgId}

C36_MessageStoredAtMostOnce ==
  \A whatsappMsgId \in MsgIds : Cardinality(RowsOf(whatsappMsgId)) <= 1

====
